---- MODULE Spec2Model ----
(***************************************************************************)
(* AnsiLogger (node-ansi-logger): the dispatch engine of log() with its    *)
(* level gate, the five sinks (instance callback, process-wide callback,   *)
(* instance file, process-wide file, delegate or console) and the          *)
(* size-capped file writers.                                               *)
(***************************************************************************)
EXTENDS Integers, Sequences, FiniteSets, TLC

\* ------------------------------------------------------------------------
\* Values

\* enum LogLevel: NONE = '', DEBUG = 'debug', ... FATAL = 'fatal'
NONE == ""
DEBUG == "debug"
INFO == "info"
NOTICE == "notice"
WARN == "warn"
ERROR == "error"
FATAL == "fatal"
LogLevel == {NONE, DEBUG, INFO, NOTICE, WARN, ERROR, FATAL}

\* the JavaScript value undefined (of a level, a path or a callback), and of
\* a byte counter
Undefined == "undefined"
NoSize == -1

\* the hard ceiling of the maxFileSize setter and the default cap (100MB)
MaxFileSizeCeiling == 100000000

\* ------------------------------------------------------------------------
\* Bounds of the model

\* a log call stops being explored once a file counter would pass MaxBytes
MaxBytes == 3
\* number of sinks whose invocation fails within one log call
MaxFaults == 1

\* the logger instances; the sets of inputs the actions draw from
Loggers == {"L1", "L2"}
RelPaths == {"a.log", "b.log"}
AbsPaths == {"/cwd/a.log", "/cwd/b.log"}
\* values given as a file path that are not usable: undefined, the empty
\* string, a value that is not a string
EmptyString == ""
NonString == "<not a string>"
BadPaths == {Undefined, EmptyString, NonString}
LineSizes == {1, 2}
MaxFileSizes == {2, 3, MaxFileSizeCeiling + 1}

\* ------------------------------------------------------------------------
\* Names of the sinks of one log call, in the order log() attempts them,
\* and of the two sentinel writes that follow a file write.
SinkOrder == <<"callback", "globalCallback", "logFile", "globalLogFile", "extLog", "console">>
Sinks == {SinkOrder[i] : i \in 1..Len(SinkOrder)}
FaultPoints == {"callback", "globalCallback", "logFile", "globalLogFile",
                "logFileStop", "globalLogFileStop", "extLog"}

VARIABLES
  extLog,                      \* [Loggers -> BOOLEAN]  a delegate logger is configured
  logLevel,                    \* [Loggers -> LogLevel]
  logWithColors,               \* [Loggers -> BOOLEAN]
  callback,                    \* [Loggers -> BOOLEAN]  an instance callback is set
  logFilePath,                 \* [Loggers -> AbsPaths \cup {Undefined}]
  logFileSize,                 \* [Loggers -> Nat \cup {NoSize}]
  maxFileSize,                 \* [Loggers -> Int]
  logName,                     \* [Loggers -> STRING]  the name of the logger
  AnsiLoggerCallback,          \* BOOLEAN  a process-wide callback is set
  AnsiLoggerCallbackLoglevel,  \* LogLevel \cup {Undefined}
  AnsiLoggerFilePath,          \* AbsPaths \cup {Undefined}
  AnsiLoggerFileLoglevel,      \* LogLevel \cup {Undefined}
  AnsiLoggerFileLogSize,       \* Nat \cup {NoSize}
  files,                       \* [AbsPaths -> file]  the file system
  logStartTime,                \* [Loggers -> Nat]  0 when no timer is running
  logTimestampFormat,          \* [Loggers -> TimestampFormat]
  clock,                       \* Nat  what Date.now() returns
  stringifyPayload,            \* the heap and the value given to stringify
  stringifyResult,             \* what stringify did for it
  last                         \* what the last operation did

instVars == <<extLog, logLevel, logWithColors, callback, logFilePath, logFileSize, maxFileSize>>
globVars == <<AnsiLoggerCallback, AnsiLoggerCallbackLoglevel, AnsiLoggerFilePath,
              AnsiLoggerFileLoglevel, AnsiLoggerFileLogSize>>
timerVars == <<logStartTime, logTimestampFormat, clock>>
stringifyVars == <<stringifyPayload, stringifyResult>>
vars == <<instVars, logName, globVars, files, timerVars, stringifyVars, last>>

\* ------------------------------------------------------------------------
\* The file system: a file exists or not, and holds what has been appended
\* to it: the bytes of the application lines and the number of sentinel
\* lines of the instance sink (app, stop) and of the process-wide sink
\* (gapp, gstop), and whether it holds content from before the logger used
\* it (old).
Absent == [exists |-> FALSE, app |-> 0, stop |-> 0, gapp |-> 0, gstop |-> 0, old |-> FALSE]
EmptyFile == [Absent EXCEPT !.exists = TRUE]
OldFile == [EmptyFile EXCEPT !.old = TRUE]

\* fs.existsSync
existsSync(fs, p) == fs[p].exists

\* an unlink that leaves the file in place
unlinkSyncKeeps(fs, p) == fs

\* fs.unlinkSync
unlinkSync(fs, p) == [fs EXCEPT ![p] = Absent]

\* fs.appendFileSync creates the file when it does not exist
Opened(fs, p) == IF fs[p].exists THEN fs[p] ELSE EmptyFile

\* path.resolve: an absolute path is kept, a relative one is put under the
\* working directory
resolve(p) == IF p \in AbsPaths THEN p ELSE "/cwd/" \o p

\* filePath && typeof filePath === 'string' && filePath !== ''
usablePath(p) == p # Undefined /\ p # NonString /\ p # EmptyString

\* ------------------------------------------------------------------------
\* stringify(payload), with its default arguments: no colors, no quote
\* around a key, ' around a string.
\*
\* A value is null, undefined, a string, number, bigint or boolean (v is the
\* text its conversion to a string gives), a function, a symbol (v is its
\* description) or an object (v names a container of the heap).  A
\* container is an array or not and has its own entries in the order
\* Object.entries gives them.

Objs == {"o1", "o2", "o3"}

Value(t, v) == [t |-> t, v |-> v]
Null == Value("null", "")
Undef == Value("undefined", "")
Ref(o) == Value("object", o)
Entry(key, value) == [key |-> key, value |-> value]
Container(isArray, entries) == [isArray |-> isArray, entries |-> entries]

\* what a call does: it throws, or it returns a string and leaves the set
\* seenObjects, which all the calls on one payload share, with some members
Returned(string, seenObjects) == [threw |-> FALSE, out |-> string, seen |-> seenObjects]
Thrown(message) == [threw |-> TRUE, out |-> message, seen |-> {}]

\* if (Object.keys(newValue).length < 100)
MaxKeys == 100

RECURSIVE stringify(_, _, _)
RECURSIVE forEachEntry(_, _, _, _, _, _)
RECURSIVE stringifyValue(_, _, _)

\* the size guard that lets a container of MaxKeys entries through
stringifyValueGuardAbove(heap, value, seenObjects) ==
  CASE value.t = "null" -> Returned("null", seenObjects)
    [] value.t = "string" -> Returned("'" \o value.v \o "'", seenObjects)
    [] value.t \in {"number", "bigint", "boolean"} -> Returned(value.v, seenObjects)
    [] value.t = "undefined" -> Returned("undefined", seenObjects)
    [] value.t = "function" -> Returned("(function)", seenObjects)
    [] value.t = "object" ->
         IF Len(heap[value.v].entries) <= MaxKeys
         THEN stringify(heap, value, seenObjects)
         ELSE Returned("{...}", seenObjects)
    [] OTHER -> Thrown("Stringify unknown type")

\* the branches on the type of the value of one entry
stringifyValue(heap, value, seenObjects) ==
  CASE value.t = "null" -> Returned("null", seenObjects)
    [] value.t = "string" -> Returned("'" \o value.v \o "'", seenObjects)
    [] value.t = "number" -> Returned(value.v, seenObjects)
    [] value.t = "bigint" -> Returned(value.v, seenObjects)
    [] value.t = "boolean" -> Returned(value.v, seenObjects)
    [] value.t = "undefined" -> Returned("undefined", seenObjects)
    [] value.t = "function" -> Returned("(function)", seenObjects)
    [] value.t = "object" ->
         IF Len(heap[value.v].entries) < MaxKeys
         THEN stringify(heap, value, seenObjects)
         ELSE Returned("{...}", seenObjects)
    [] OTHER -> Thrown("Stringify unknown type")

\* Object.entries(payload).forEach(...) over the entries from..to: what
\* they append to string, in their order, or the first exception.  (The
\* range is halved so that the evaluation stays shallow.)
forEachEntry(heap, isArray, entries, from, to, seenObjects) ==
  IF from > to THEN Returned("", seenObjects)
  ELSE IF from = to
  THEN LET newValue == stringifyValue(heap, entries[from].value, seenObjects) IN
       IF newValue.threw THEN newValue
       ELSE Returned((IF from > 1 THEN ", " ELSE "")
                     \o (IF isArray THEN newValue.out
                         ELSE entries[from].key \o ": " \o newValue.out),
                     newValue.seen)
  ELSE LET middle == (from + to) \div 2
           head == forEachEntry(heap, isArray, entries, from, middle, seenObjects)
       IN IF head.threw THEN head
          ELSE LET rest == forEachEntry(heap, isArray, entries, middle + 1, to, head.seen)
               IN IF rest.threw THEN rest ELSE Returned(head.out \o rest.out, rest.seen)

\* stringify that writes the literal of the size guard for a container
\* that is in seenObjects
stringifyCircularAsGuard(heap, payload, seenObjects) ==
  IF payload.t = "null" THEN Returned("null", seenObjects)
  ELSE IF payload.t = "undefined" THEN Returned("undefined", seenObjects)
  ELSE IF payload.v \in seenObjects THEN Returned("{...}", seenObjects)
  ELSE LET isArray == heap[payload.v].isArray
           string == forEachEntry(heap, isArray, heap[payload.v].entries, 1,
                                  Len(heap[payload.v].entries),
                                  seenObjects \cup {payload.v})
       IN IF string.threw THEN string
          ELSE Returned((IF isArray THEN "[ " ELSE "{ ") \o string.out \o " "
                        \o (IF isArray THEN "]" ELSE "}"),
                        string.seen \ {payload.v})

\* stringify without seenObjects.delete(payload)
stringifyKeepsSeen(heap, payload, seenObjects) ==
  IF payload.t = "null" THEN Returned("null", seenObjects)
  ELSE IF payload.t = "undefined" THEN Returned("undefined", seenObjects)
  ELSE IF payload.v \in seenObjects THEN Returned("[Circular]", seenObjects)
  ELSE LET isArray == heap[payload.v].isArray
           string == forEachEntry(heap, isArray, heap[payload.v].entries, 1,
                                  Len(heap[payload.v].entries),
                                  seenObjects \cup {payload.v})
       IN IF string.threw THEN string
          ELSE Returned((IF isArray THEN "[ " ELSE "{ ") \o string.out \o " "
                        \o (IF isArray THEN "]" ELSE "}"),
                        string.seen)

stringify(heap, payload, seenObjects) ==
  IF payload.t = "null" THEN Returned("null", seenObjects)
  ELSE IF payload.t = "undefined" THEN Returned("undefined", seenObjects)
  ELSE IF payload.v \in seenObjects THEN Returned("[Circular]", seenObjects)
  ELSE LET isArray == heap[payload.v].isArray
           string == forEachEntry(heap, isArray, heap[payload.v].entries, 1,
                                  Len(heap[payload.v].entries),
                                  seenObjects \cup {payload.v})
       IN IF string.threw THEN string
          ELSE Returned((IF isArray THEN "[ " ELSE "{ ") \o string.out \o " "
                        \o (IF isArray THEN "]" ELSE "}"),
                        string.seen \ {payload.v})

\* ------------------------------------------------------------------------
\* shouldLog(level, configuredLevel): the level gate

\* a slip in the gate: the NOTICE case forgets the INFO level
shouldLogNoticeSlip(level, configuredLevel) ==
  CASE level = NONE -> FALSE
    [] level = DEBUG -> configuredLevel = DEBUG
    [] level = INFO -> configuredLevel \in {DEBUG, INFO}
    [] level = NOTICE -> configuredLevel \in {DEBUG, NOTICE}
    [] level = WARN -> configuredLevel \in {DEBUG, INFO, NOTICE, WARN}
    [] level = ERROR -> configuredLevel \in {DEBUG, INFO, NOTICE, WARN, ERROR}
    [] level = FATAL -> configuredLevel \in {DEBUG, INFO, NOTICE, WARN, ERROR, FATAL}
    [] OTHER -> FALSE

shouldLog(level, configuredLevel) ==
  CASE level = NONE -> FALSE
    [] level = DEBUG -> configuredLevel = DEBUG
    [] level = INFO -> configuredLevel \in {DEBUG, INFO}
    [] level = NOTICE -> configuredLevel \in {DEBUG, INFO, NOTICE}
    [] level = WARN -> configuredLevel \in {DEBUG, INFO, NOTICE, WARN}
    [] level = ERROR -> configuredLevel \in {DEBUG, INFO, NOTICE, WARN, ERROR}
    [] level = FATAL -> configuredLevel \in {DEBUG, INFO, NOTICE, WARN, ERROR, FATAL}
    [] OTHER -> FALSE

\* a slip in the console path without colors: the WARN case forgets NOTICE
plainConsoleWarnSlip(level, configured) ==
  CASE level = DEBUG -> configured = DEBUG
    [] level = INFO -> configured = DEBUG \/ configured = INFO
    [] level = NOTICE -> configured = DEBUG \/ configured = INFO \/ configured = NOTICE
    [] level = WARN -> configured = DEBUG \/ configured = INFO \/ configured = WARN
    [] level = ERROR -> configured = DEBUG \/ configured = INFO \/ configured = NOTICE
                        \/ configured = WARN \/ configured = ERROR
    [] level = FATAL -> configured = DEBUG \/ configured = INFO \/ configured = NOTICE
                        \/ configured = WARN \/ configured = ERROR \/ configured = FATAL
    [] OTHER -> FALSE

\* the conditions of the console path without colors, which does not call
\* shouldLog but compares this._logLevel case by case
plainConsole(level, configured) ==
  CASE level = DEBUG -> configured = DEBUG
    [] level = INFO -> configured = DEBUG \/ configured = INFO
    [] level = NOTICE -> configured = DEBUG \/ configured = INFO \/ configured = NOTICE
    [] level = WARN -> configured = DEBUG \/ configured = INFO \/ configured = NOTICE
                       \/ configured = WARN
    [] level = ERROR -> configured = DEBUG \/ configured = INFO \/ configured = NOTICE
                        \/ configured = WARN \/ configured = ERROR
    [] level = FATAL -> configured = DEBUG \/ configured = INFO \/ configured = NOTICE
                        \/ configured = WARN \/ configured = ERROR \/ configured = FATAL
    [] OTHER -> FALSE

\* the console path with colors: a switch over the six levels, each guarded
\* by shouldLog
colorConsole(level, configured) ==
  level \in {DEBUG, INFO, NOTICE, WARN, ERROR, FATAL} /\ shouldLog(level, configured)

\* ------------------------------------------------------------------------
\* getTimestamp(): the timestamp of a line

TimestampFormat == {"ISO", "LOCAL_DATE", "LOCAL_TIME", "LOCAL_DATE_TIME", "TIME_MILLIS",
                    "HOMEBRIDGE", "CUSTOM"}

RECURSIVE padStart(_, _)
\* String.prototype.padStart(targetLength, ' ')
padStart(str, targetLength) ==
  IF Len(str) >= targetLength THEN str ELSE padStart(" " \o str, targetLength)

\* the switch on the format: the date of the instant now in the notation
\* that the format selects, written as the call that produces it
formatTimestamp(format, now) ==
  CASE format = "LOCAL_DATE" -> "toLocaleDateString(" \o ToString(now) \o ")"
    [] format = "LOCAL_TIME" -> "toLocaleTimeString(" \o ToString(now) \o ")"
    [] format \in {"HOMEBRIDGE", "LOCAL_DATE_TIME"} -> "toLocaleString(" \o ToString(now) \o ")"
    [] format = "ISO" -> "toISOString(" \o ToString(now) \o ")"
    [] format = "TIME_MILLIS" -> "HH:mm:ss.SSS(" \o ToString(now) \o ")"
    [] format = "CUSTOM" -> "formatCustomTimestamp(" \o ToString(now) \o ")"

\* the timer that forgets to override the format
getTimestampByFormat(startTime, format, now) == formatTimestamp(format, now)

getTimestamp(startTime, format, now) ==
  IF startTime # 0
  THEN "Timer:    " \o padStart(ToString(now - startTime), 7) \o " ms"
  ELSE formatTimestamp(format, now)

\* the sinks that write a timestamp
StampingSinks == {"callback", "globalCallback", "logFile", "globalLogFile", "console"}

\* ------------------------------------------------------------------------
\* What the last operation did, for the properties (a setter of a level, a
\* flag, a callback or the cap leaves nothing to tell): its name, logger and
\* argument, the message level of a log call, the sinks it invoked (attempted), the
\* invocations that threw (failed), whether an exception reached the caller
\* (threw), the number of console.log lines and of delegate forwards, the
\* three evaluations of shouldLog a log call makes, and the counter that an
\* assignment of logFilePath replaces (prior), and the timestamp that the
\* sinks of a log call or now() got (stamp), and the failures that a catch
\* of log() wrote to console.error (reported), and the arguments that each
\* sink invoked was given (received), the sinks of a log call in the order
\* in which it invoked them (order), and the invocations of this log call and
\* of the log call just before it, one after another (events).
NoGates == [inst |-> FALSE, gcb |-> FALSE, gfile |-> FALSE]
NoCall == [op |-> "none", logger |-> "L1", level |-> NONE, attempted |-> {}, failed |-> {},
           threw |-> FALSE, consoleLines |-> 0, forwarded |-> 0, gates |-> NoGates,
           arg |-> Undefined, prior |-> NoSize, stamp |-> "", reported |-> {},
           received |-> <<>>, order |-> <<>>, events |-> <<>>]

Did(op, l, arg) == [NoCall EXCEPT !.op = op, !.logger = l, !.arg = arg]

\* ------------------------------------------------------------------------
\* params.logName ?? 'NodeAnsiLogger'
constructorLogName(pLogName) ==
  IF pLogName # Undefined THEN pLogName ELSE "NodeAnsiLogger"

\* the constructor that lets logDebug win over logLevel
constructorLogLevelDebugFirst(pLogLevel, pLogDebug) ==
  IF pLogDebug = TRUE THEN DEBUG
  ELSE IF pLogLevel # Undefined THEN pLogLevel ELSE INFO

\* constructor(params): the configured level of a new logger
\*   params.logLevel ?? (params.logDebug === true ? DEBUG : INFO)
constructorLogLevel(pLogLevel, pLogDebug) ==
  IF pLogLevel # Undefined THEN pLogLevel
  ELSE IF pLogDebug = TRUE THEN DEBUG ELSE INFO

\* params.logTimestampFormat ?? TimestampFormat.LOCAL_DATE_TIME
constructorTimestampFormat(pFormat) ==
  IF pFormat # Undefined THEN pFormat ELSE "LOCAL_DATE_TIME"

\* the heaps that stringify is given
MaxEntries == 2
EntryKeys == <<"a", "b", "c">>
EntryValues == {Ref(o) : o \in Objs} \cup {Value("string", "abc"), Value("symbol", "testSymbol")}
Fills == {MaxKeys - 1, MaxKeys}
FilledEntryValues == {Ref(o) : o \in Objs} \cup {Value("string", "abc")}

SeqsUpTo(S, n) == UNION {[1..k -> S] : k \in 0..n}

\* fill numbers 0, 1, .. as Array.from({ length: fill }, (_, i) => i)
\* gives them, under the keys k0, k1, .. if not in an array, then the values
ContainerOf(isArray, fill, values) ==
  Container(isArray,
            [i \in 1..fill |-> Entry(IF isArray THEN ToString(i - 1) ELSE "k" \o ToString(i - 1),
                                     Value("number", ToString(i - 1)))]
            \o [i \in 1..Len(values) |->
                  Entry(IF isArray THEN ToString(fill + i - 1) ELSE EntryKeys[i], values[i])])

HeapOf(p) ==
  [o \in Objs |-> ContainerOf(o \in p.arrays, IF o = p.filled THEN p.fill ELSE 0, p.values[o])]

\* no value was given to stringify yet: the heap is described by the
\* containers that are arrays, the one that is filled with numbers and how
\* many, and the values of the other entries of each
NoPayload == [arrays |-> {}, filled |-> "o1", fill |-> 0,
              values |-> [o \in Objs |-> <<>>], root |-> Undef]
NotRendered == [threw |-> FALSE, out |-> "", done |-> FALSE]

\* params.logWithColors ?? true
constructorLogWithColors(pLogWithColors) ==
  IF pLogWithColors # Undefined THEN pLogWithColors = "true" ELSE TRUE

\* The state after the loggers are constructed: logger L1 with any
\* parameters, the other loggers with none; the process-wide variables are
\* undefined; each file may exist already.
InitLoggers(levels, debugs, colors, exts, oldFiles) ==
  /\ \E pl \in levels, pd \in debugs :
       logLevel = [l \in Loggers |-> IF l = "L1" THEN constructorLogLevel(pl, pd)
                                     ELSE constructorLogLevel(Undefined, FALSE)]
  /\ \E pc \in colors :
       logWithColors = [l \in Loggers |-> IF l = "L1" THEN constructorLogWithColors(pc)
                                          ELSE constructorLogWithColors(Undefined)]
  /\ \E pe \in exts : extLog = [l \in Loggers |-> l = "L1" /\ pe]
  /\ callback = [l \in Loggers |-> FALSE]
  /\ logFilePath = [l \in Loggers |-> Undefined]
  /\ logFileSize = [l \in Loggers |-> NoSize]
  /\ maxFileSize = [l \in Loggers |-> MaxFileSizeCeiling]
  /\ logName = [l \in Loggers |-> constructorLogName(Undefined)]
  /\ AnsiLoggerCallback = FALSE
  /\ AnsiLoggerCallbackLoglevel = Undefined
  /\ AnsiLoggerFilePath = Undefined
  /\ AnsiLoggerFileLoglevel = Undefined
  /\ AnsiLoggerFileLogSize = NoSize
  /\ \E old \in SUBSET oldFiles :
       files = [p \in AbsPaths |-> IF p \in old THEN OldFile ELSE Absent]
  /\ logStartTime = [l \in Loggers |-> 0]
  /\ logTimestampFormat = [l \in Loggers |-> constructorTimestampFormat(Undefined)]
  /\ clock = 1
  /\ last = NoCall

InitWith(levels, debugs, colors, exts, oldFiles) ==
  /\ InitLoggers(levels, debugs, colors, exts, oldFiles)
  /\ stringifyPayload = NoPayload
  /\ stringifyResult = NotRendered

\* ------------------------------------------------------------------------
\* Setters of the instance

\* set logLevel
SetLogLevel(l, v) ==
  /\ UNCHANGED <<timerVars, stringifyVars, logName>>
  /\ logLevel' = [logLevel EXCEPT ![l] = v]
  /\ last' = NoCall
  /\ UNCHANGED <<extLog, logWithColors, callback, logFilePath, logFileSize, maxFileSize,
                 globVars, files>>

\* set logWithColors
SetLogWithColors(l, v) ==
  /\ UNCHANGED <<timerVars, stringifyVars, logName>>
  /\ logWithColors' = [logWithColors EXCEPT ![l] = v]
  /\ last' = NoCall
  /\ UNCHANGED <<extLog, logLevel, callback, logFilePath, logFileSize, maxFileSize,
                 globVars, files>>

\* set logName(name)
SetLogName(l, name) ==
  /\ logName' = [logName EXCEPT ![l] = name]
  /\ last' = NoCall
  /\ UNCHANGED <<instVars, globVars, files, timerVars, stringifyVars>>

\* setCallback(callback): cb is whether a function (TRUE) or undefined is given
SetCallback(l, cb) ==
  /\ UNCHANGED <<timerVars, stringifyVars, logName>>
  /\ callback' = [callback EXCEPT ![l] = cb]
  /\ last' = NoCall
  /\ UNCHANGED <<extLog, logLevel, logWithColors, logFilePath, logFileSize, maxFileSize,
                 globVars, files>>

\* set maxFileSize: Math.min(maxFileSize, 100000000)
minCeiling(v) == IF v < MaxFileSizeCeiling THEN v ELSE MaxFileSizeCeiling

SetMaxFileSize(l, v) ==
  /\ UNCHANGED <<timerVars, stringifyVars, logName>>
  /\ maxFileSize' = [maxFileSize EXCEPT ![l] = minCeiling(v)]
  /\ last' = NoCall
  /\ UNCHANGED <<extLog, logLevel, logWithColors, callback, logFilePath, logFileSize,
                 globVars, files>>

\* path.resolve throws only when it needs the working directory and that
\* is gone: for a relative path
resolveThrows(p, cwdGone) == cwdGone /\ p \notin AbsPaths

\* the setter that keeps the resolved path when the unlink fails
SetLogFilePathKeepsOnFail(l, filePath, cwdGone, unlinkFails) ==
  LET resolveFails == resolveThrows(filePath, cwdGone) IN
  /\ UNCHANGED <<timerVars, stringifyVars, logName>>
  /\ IF usablePath(filePath) /\ ~resolveFails
     THEN /\ logFilePath' = [logFilePath EXCEPT ![l] = resolve(filePath)]
          /\ logFileSize' = [logFileSize EXCEPT ![l] = 0]
          /\ files' = IF existsSync(files, resolve(filePath)) /\ ~unlinkFails
                      THEN unlinkSync(files, resolve(filePath)) ELSE files
     ELSE /\ logFilePath' = [logFilePath EXCEPT ![l] = Undefined]
          /\ logFileSize' = [logFileSize EXCEPT ![l] = NoSize]
          /\ files' = files
  /\ last' = [Did("logFilePath", l, filePath) EXCEPT
                !.prior = logFileSize[l],
                !.attempted = IF usablePath(filePath) /\ ~resolveFails
                                 /\ existsSync(files, resolve(filePath))
                              THEN {"unlink"} ELSE {},
                !.failed = IF ~usablePath(filePath) THEN {}
                           ELSE IF resolveFails THEN {"resolve"}
                           ELSE IF existsSync(files, resolve(filePath)) /\ unlinkFails
                                THEN {"unlink"} ELSE {}]
  /\ UNCHANGED <<extLog, logLevel, logWithColors, callback, maxFileSize, globVars>>

\* set logFilePath(filePath): cwdGone and unlinkFails are whether the
\* working directory is gone and whether fs.unlinkSync throws when called
SetLogFilePath(l, filePath, cwdGone, unlinkFails) ==
  LET resolveFails == resolveThrows(filePath, cwdGone) IN
  /\ UNCHANGED <<timerVars, stringifyVars, logName>>
  /\ IF usablePath(filePath)
     THEN IF resolveFails
          THEN /\ logFilePath' = [logFilePath EXCEPT ![l] = Undefined]
               /\ logFileSize' = [logFileSize EXCEPT ![l] = NoSize]
               /\ files' = files
          ELSE IF existsSync(files, resolve(filePath)) /\ unlinkFails
          THEN /\ logFilePath' = [logFilePath EXCEPT ![l] = Undefined]
               /\ logFileSize' = [logFileSize EXCEPT ![l] = NoSize]
               /\ files' = files
          ELSE /\ logFilePath' = [logFilePath EXCEPT ![l] = resolve(filePath)]
               /\ logFileSize' = [logFileSize EXCEPT ![l] = 0]
               /\ files' = IF existsSync(files, resolve(filePath))
                           THEN unlinkSync(files, resolve(filePath)) ELSE files
     ELSE /\ logFilePath' = [logFilePath EXCEPT ![l] = Undefined]
          /\ logFileSize' = [logFileSize EXCEPT ![l] = NoSize]
          /\ files' = files
  /\ last' = [Did("logFilePath", l, filePath) EXCEPT
                !.prior = logFileSize[l],
                !.attempted = IF usablePath(filePath) /\ ~resolveFails
                                 /\ existsSync(files, resolve(filePath))
                              THEN {"unlink"} ELSE {},
                !.failed = IF ~usablePath(filePath) THEN {}
                           ELSE IF resolveFails THEN {"resolve"}
                           ELSE IF existsSync(files, resolve(filePath)) /\ unlinkFails
                                THEN {"unlink"} ELSE {}]
  /\ UNCHANGED <<extLog, logLevel, logWithColors, callback, maxFileSize, globVars>>

\* ------------------------------------------------------------------------
\* Setters of the process-wide state (static methods)

\* get logFileSize: this._logFilePath && this._logFileSize ? this._logFileSize
\* : undefined; the number 0 is falsy.  NoSize is undefined.
getLogFileSize(l) ==
  IF logFilePath[l] # Undefined /\ logFilePath[l] # ""
     /\ logFileSize[l] # NoSize /\ logFileSize[l] # 0
  THEN logFileSize[l] ELSE NoSize

GetLogFileSize(l) ==
  /\ last' = Did("logFileSize", l, getLogFileSize(l))
  /\ UNCHANGED <<instVars, globVars, files, timerVars, stringifyVars, logName>>

\* setGlobalCallback(callback, callbackLevel = DEBUG)
SetGlobalCallback(cb, callbackLevel) ==
  /\ UNCHANGED <<timerVars, stringifyVars, logName>>
  /\ AnsiLoggerCallback' = cb
  /\ AnsiLoggerCallbackLoglevel' = callbackLevel
  /\ last' = NoCall
  /\ UNCHANGED <<instVars, AnsiLoggerFilePath, AnsiLoggerFileLoglevel, AnsiLoggerFileLogSize,
                 files>>

\* setGlobalCallbackLevel(logLevel = DEBUG)
SetGlobalCallbackLevel(v) ==
  /\ UNCHANGED <<timerVars, stringifyVars, logName>>
  /\ AnsiLoggerCallbackLoglevel' = v
  /\ last' = NoCall
  /\ UNCHANGED <<instVars, AnsiLoggerCallback, AnsiLoggerFilePath, AnsiLoggerFileLoglevel,
                 AnsiLoggerFileLogSize, files>>

\* getGlobalCallbackLevel(): if (__AnsiLoggerCallbackLoglevel__) return it,
\* else return undefined; the empty string, LogLevel.NONE, is falsy
getGlobalCallbackLevel ==
  IF AnsiLoggerCallbackLoglevel # Undefined /\ AnsiLoggerCallbackLoglevel # ""
  THEN AnsiLoggerCallbackLoglevel ELSE Undefined

GetGlobalCallbackLevel ==
  /\ last' = Did("getGlobalCallbackLevel", "L1", getGlobalCallbackLevel)
  /\ UNCHANGED <<instVars, globVars, files, timerVars, stringifyVars, logName>>

\* getGlobalLogfileLevel(): if (__AnsiLoggerFileLoglevel__) return it, else
\* return undefined
getGlobalLogfileLevel ==
  IF AnsiLoggerFileLoglevel # Undefined /\ AnsiLoggerFileLoglevel # ""
  THEN AnsiLoggerFileLoglevel ELSE Undefined

GetGlobalLogfileLevel ==
  /\ last' = Did("getGlobalLogfileLevel", "L1", getGlobalLogfileLevel)
  /\ UNCHANGED <<instVars, globVars, files, timerVars, stringifyVars, logName>>

\* setGlobalLogfile that keeps the counter when it takes the path away
SetGlobalLogfileKeepsCounter(logfilePath, logfileLevel, unlink, cwdGone, unlinkFails) ==
  LET resolveFails == resolveThrows(logfilePath, cwdGone) IN
  /\ UNCHANGED <<timerVars, stringifyVars, logName>>
  /\ IF usablePath(logfilePath)
     THEN IF resolveFails
          THEN /\ UNCHANGED <<AnsiLoggerFilePath, AnsiLoggerFileLoglevel,
                              AnsiLoggerFileLogSize, files>>
               /\ last' = [Did("setGlobalLogfile", "L1", logfilePath) EXCEPT
                             !.failed = {"resolve"}, !.threw = TRUE]
          ELSE /\ files' = IF unlink /\ existsSync(files, resolve(logfilePath)) /\ ~unlinkFails
                           THEN unlinkSync(files, resolve(logfilePath)) ELSE files
               /\ AnsiLoggerFilePath' = resolve(logfilePath)
               /\ AnsiLoggerFileLoglevel' = logfileLevel
               /\ AnsiLoggerFileLogSize' = 0
               /\ last' = [Did("setGlobalLogfile", "L1", logfilePath) EXCEPT
                             !.failed = IF unlink /\ existsSync(files, resolve(logfilePath))
                                           /\ unlinkFails
                                        THEN {"unlink"} ELSE {}]
     ELSE /\ AnsiLoggerFilePath' = Undefined
          /\ UNCHANGED <<AnsiLoggerFileLogSize, AnsiLoggerFileLoglevel, files>>
          /\ last' = Did("setGlobalLogfile", "L1", logfilePath)
  /\ UNCHANGED <<instVars, AnsiLoggerCallback, AnsiLoggerCallbackLoglevel>>

\* setGlobalLogfile(logfilePath, logfileLevel = DEBUG, unlink = false):
\* path.resolve is not inside a try, a failing unlinkSync is caught and the
\* path is set all the same
SetGlobalLogfile(logfilePath, logfileLevel, unlink, cwdGone, unlinkFails) ==
  LET resolveFails == resolveThrows(logfilePath, cwdGone) IN
  /\ UNCHANGED <<timerVars, stringifyVars, logName>>
  /\ IF usablePath(logfilePath)
     THEN IF resolveFails
          THEN /\ UNCHANGED <<AnsiLoggerFilePath, AnsiLoggerFileLoglevel,
                              AnsiLoggerFileLogSize, files>>
               /\ last' = [Did("setGlobalLogfile", "L1", logfilePath) EXCEPT
                             !.failed = {"resolve"}, !.threw = TRUE]
          ELSE /\ files' = IF unlink /\ existsSync(files, resolve(logfilePath)) /\ ~unlinkFails
                           THEN unlinkSync(files, resolve(logfilePath)) ELSE files
               /\ AnsiLoggerFilePath' = resolve(logfilePath)
               /\ AnsiLoggerFileLoglevel' = logfileLevel
               /\ AnsiLoggerFileLogSize' = 0
               /\ last' = [Did("setGlobalLogfile", "L1", logfilePath) EXCEPT
                             !.failed = IF unlink /\ existsSync(files, resolve(logfilePath))
                                           /\ unlinkFails
                                        THEN {"unlink"} ELSE {}]
     ELSE /\ AnsiLoggerFilePath' = Undefined
          /\ AnsiLoggerFileLogSize' = NoSize
          /\ UNCHANGED <<AnsiLoggerFileLoglevel, files>>
          /\ last' = Did("setGlobalLogfile", "L1", logfilePath)
  /\ UNCHANGED <<instVars, AnsiLoggerCallback, AnsiLoggerCallbackLoglevel>>

\* setGlobalLogfileLevel(logfileLevel)
SetGlobalLogfileLevel(v) ==
  /\ UNCHANGED <<timerVars, stringifyVars, logName>>
  /\ AnsiLoggerFileLoglevel' = v
  /\ last' = NoCall
  /\ UNCHANGED <<instVars, AnsiLoggerCallback, AnsiLoggerCallbackLoglevel, AnsiLoggerFilePath,
                 AnsiLoggerFileLogSize, files>>

\* ------------------------------------------------------------------------
\* log(level, message, ...parameters)

\* log() without the try blocks around the two file sinks
caughtCallbacksOnly(point) == point \in {"callback", "globalCallback"}

\* log() without the try blocks around the two callbacks
caughtFilesOnly(point) ==
  point \in {"logFile", "logFileStop", "globalLogFile", "globalLogFileStop"}

\* the invocations that sit inside a try block of log() whose catch reports
\* the error on console.error and goes on
caught(point) ==
  point \in {"callback", "globalCallback", "logFile", "logFileStop",
             "globalLogFile", "globalLogFileStop"}

\* appending the application line of n bytes, then the sentinel line, to the
\* file at path p; who is "app" for the instance sink, "gapp" for the
\* process-wide one
appendLine(fs, p, who, n) ==
  IF who = "app" THEN [fs EXCEPT ![p] = [Opened(fs, p) EXCEPT !.app = @ + n]]
  ELSE [fs EXCEPT ![p] = [Opened(fs, p) EXCEPT !.gapp = @ + n]]

appendStop(fs, p, who) ==
  IF who = "app" THEN [fs EXCEPT ![p] = [Opened(fs, p) EXCEPT !.stop = @ + 1]]
  ELSE [fs EXCEPT ![p] = [Opened(fs, p) EXCEPT !.gstop = @ + 1]]

\* the file sink that counts the line also when logToFile throws
fileSinkCountsFailed(fs, path, size, max, gate, who, n, writeFails, stopFails) ==
  LET try == path # Undefined /\ size # NoSize /\ size < max /\ gate
      wrote == try /\ ~writeFails
      size1 == IF try THEN size + n ELSE size
      stopTry == wrote /\ size1 >= max
      stopped == stopTry /\ ~stopFails
      fs1 == IF wrote THEN appendLine(fs, path, who, n) ELSE fs
      fs2 == IF stopped THEN appendStop(fs1, path, who) ELSE fs1
  IN [try |-> try, wrote |-> wrote, size |-> size1, fs |-> fs2,
      writeThrew |-> try /\ writeFails, stopThrew |-> stopTry /\ stopFails]

\* the file sink that counts one more than logToFile returns
fileSinkCountsMore(fs, path, size, max, gate, who, n, writeFails, stopFails) ==
  LET try == path # Undefined /\ size # NoSize /\ size < max /\ gate
      wrote == try /\ ~writeFails
      size1 == IF wrote THEN size + n + 1 ELSE size
      stopTry == wrote /\ size1 >= max
      stopped == stopTry /\ ~stopFails
      fs1 == IF wrote THEN appendLine(fs, path, who, n) ELSE fs
      fs2 == IF stopped THEN appendStop(fs1, path, who) ELSE fs1
  IN [try |-> try, wrote |-> wrote, size |-> size1, fs |-> fs2,
      writeThrew |-> try /\ writeFails, stopThrew |-> stopTry /\ stopFails]

\* the file sink with the cap compared by <= instead of <
fileSinkAtMost(fs, path, size, max, gate, who, n, writeFails, stopFails) ==
  LET try == path # Undefined /\ size # NoSize /\ size <= max /\ gate
      wrote == try /\ ~writeFails
      size1 == IF wrote THEN size + n ELSE size
      stopTry == wrote /\ size1 >= max
      stopped == stopTry /\ ~stopFails
      fs1 == IF wrote THEN appendLine(fs, path, who, n) ELSE fs
      fs2 == IF stopped THEN appendStop(fs1, path, who) ELSE fs1
  IN [try |-> try, wrote |-> wrote, size |-> size1, fs |-> fs2,
      writeThrew |-> try /\ writeFails, stopThrew |-> stopTry /\ stopFails]

\* One file sink of log(): the condition of its if, logToFile, the counter
\* and the sentinel.  path, size, max, gate: the sink's path, counter, cap
\* and level gate; writeFails, stopFails: whether logToFile and the append
\* of the sentinel throw.  Gives the new counter and file system, whether
\* logToFile was called and what threw.
fileSink(fs, path, size, max, gate, who, n, writeFails, stopFails) ==
  LET try == path # Undefined /\ size # NoSize /\ size < max /\ gate
      wrote == try /\ ~writeFails
      size1 == IF wrote THEN size + n ELSE size
      stopTry == wrote /\ size1 >= max
      stopped == stopTry /\ ~stopFails
      fs1 == IF wrote THEN appendLine(fs, path, who, n) ELSE fs
      fs2 == IF stopped THEN appendStop(fs1, path, who) ELSE fs1
  IN [try |-> try, wrote |-> wrote, size |-> size1, fs |-> fs2,
      writeThrew |-> try /\ writeFails, stopThrew |-> stopTry /\ stopFails]

\* the instance callback taken from any logger that has one
localCallbackOfAny(l, level) ==
  (\E k \in Loggers : callback[k]) /\ shouldLog(level, logLevel[l])

\* the conditions of the ifs of log(), one per sink
localCallbackIf(l, level) == callback[l] /\ shouldLog(level, logLevel[l])

\* the process-wide callback gated by the level of the instance
globalCallbackByInstanceLevel(l, level) ==
  AnsiLoggerCallback /\ shouldLog(level, logLevel[l])

globalCallbackIf(l, level) ==
  AnsiLoggerCallback /\ shouldLog(level, AnsiLoggerCallbackLoglevel)

\* the level part of the conditions of the two file sinks (fileSink has the rest)
localFileGate(l, level) == shouldLog(level, logLevel[l])

globalFileGate(l, level) == shouldLog(level, AnsiLoggerFileLoglevel)

\* the delegate without the test of NONE, and the delegate behind the gate
extLogAlways(l, level) == extLog[l]

extLogGated(l, level) == extLog[l] /\ shouldLog(level, logLevel[l])

\* if (this._extLog !== undefined) { if (level !== LogLevel.NONE) this._extLog.log(...) }
extLogIf(l, level) == extLog[l] /\ level # NONE

\* the console written also when a delegate is configured
consoleWithDelegate(l, level) ==
  IF logWithColors[l] THEN colorConsole(level, logLevel[l])
  ELSE plainConsole(level, logLevel[l])

\* else { if (this._logWithColors) ... else ... }
consoleIf(l, level) ==
  /\ ~extLog[l]
  /\ IF logWithColors[l] THEN colorConsole(level, logLevel[l])
     ELSE plainConsole(level, logLevel[l])

\* The call before its first sink: alive is whether the call is still
\* running (an exception that is not caught ends it), fs, size and gsize the
\* file system and the counters of the two file sinks, attempted and failed
\* the sinks invoked and the invocations that threw, order the sinks invoked
\* one after another.
logStarted(l) ==
  [alive |-> TRUE, fs |-> files, size |-> logFileSize[l],
   gsize |-> AnsiLoggerFileLogSize, attempted |-> {}, failed |-> {}, order |-> <<>>]

\* One callback block after the call so far r: if (due) try { callback } catch
logCallback(r, sink, due, faults) ==
  LET try == r.alive /\ due
      threw == try /\ sink \in faults
  IN [r EXCEPT !.attempted = IF try THEN @ \cup {sink} ELSE @,
               !.order = IF try THEN Append(@, sink) ELSE @,
               !.failed = IF threw THEN @ \cup {sink} ELSE @,
               !.alive = @ /\ ~(threw /\ ~caught(sink))]

\* One file block after the call so far r, f being what its fileSink did;
\* sink and stop name its two invocations, counter the counter it keeps.
logFile(r, f, sink, stop, counter) ==
  [r EXCEPT !.fs = f.fs, ![counter] = f.size,
            !.attempted = IF f.try THEN @ \cup {sink} ELSE @,
            !.order = IF f.try THEN Append(@, sink) ELSE @,
            !.failed = @ \cup (IF f.writeThrew THEN {sink} ELSE {})
                         \cup (IF f.stopThrew THEN {stop} ELSE {}),
            !.alive = /\ @
                      /\ ~(f.writeThrew /\ ~caught(sink))
                      /\ ~(f.stopThrew /\ ~caught(stop))]

\* local file logger
logLocalFile(r, l, level, n, faults) ==
  logFile(r, fileSink(r.fs, logFilePath[l], logFileSize[l], maxFileSize[l],
                      r.alive /\ localFileGate(l, level), "app", n,
                      "logFile" \in faults, "logFileStop" \in faults),
          "logFile", "logFileStop", "size")

\* global file logger: the cap is this logger's _maxFileSize
logGlobalFile(r, l, level, n, faults) ==
  logFile(r, fileSink(r.fs, AnsiLoggerFilePath, AnsiLoggerFileLogSize, maxFileSize[l],
                      r.alive /\ globalFileGate(l, level), "gapp", n,
                      "globalLogFile" \in faults, "globalLogFileStop" \in faults),
          "globalLogFile", "globalLogFileStop", "gsize")

\* delegate or console
logDelegateOrConsole(r, l, level, faults) ==
  LET extTry == r.alive /\ extLogIf(l, level)
      extThrew == extTry /\ "extLog" \in faults
      consoleTry == r.alive /\ consoleIf(l, level)
  IN [r EXCEPT !.attempted = @ \cup (IF extTry THEN {"extLog"} ELSE {})
                               \cup (IF consoleTry THEN {"console"} ELSE {}),
               !.order = @ \o (IF extTry THEN <<"extLog">> ELSE <<>>)
                           \o (IF consoleTry THEN <<"console">> ELSE <<>>),
               !.failed = IF extThrew THEN @ \cup {"extLog"} ELSE @,
               !.alive = @ /\ ~(extThrew /\ ~caught("extLog"))]

\* what the call r that went through all its sinks did
logOutcome(r, l, level) ==
  [size |-> r.size, gsize |-> r.gsize, fs |-> r.fs,
   attempted |-> r.attempted, failed |-> r.failed, threw |-> ~r.alive,
   order |-> r.order,
   consoleLines |-> IF "console" \in r.attempted THEN 1 ELSE 0,
   forwarded |-> IF "extLog" \in r.attempted THEN 1 ELSE 0,
   gates |-> [inst |-> shouldLog(level, logLevel[l]),
              gcb |-> shouldLog(level, AnsiLoggerCallbackLoglevel),
              gfile |-> shouldLog(level, AnsiLoggerFileLoglevel)]]

\* log() with the two file blocks before the two callback blocks
logResultFilesFirst(l, level, n, faults) ==
  logOutcome(
    logDelegateOrConsole(
      logCallback(
        logCallback(
          logGlobalFile(
            logLocalFile(logStarted(l), l, level, n, faults),
            l, level, n, faults),
          "callback", localCallbackIf(l, level), faults),
        "globalCallback", globalCallbackIf(l, level), faults),
      l, level, faults),
    l, level)

\* The whole call.  level: the message level; n: the length logToFile
\* returns for this message (the line and its newline); faults: the
\* invocations that throw if they are made.  The sinks in the order of the
\* code: local callback, global callback, local file, global file, delegate
\* or console.
logResult(l, level, n, faults) ==
  logOutcome(
    logDelegateOrConsole(
      logGlobalFile(
        logLocalFile(
          logCallback(
            logCallback(logStarted(l), "callback", localCallbackIf(l, level), faults),
            "globalCallback", globalCallbackIf(l, level), faults),
          l, level, n, faults),
        l, level, n, faults),
      l, level, faults),
    l, level)

\* what a call of log() that did r leaves in the variables
LogWritten(r, l) ==
  /\ logFileSize' = [logFileSize EXCEPT ![l] = r.size]
  /\ AnsiLoggerFileLogSize' = r.gsize
  /\ files' = r.fs
  /\ UNCHANGED <<extLog, logLevel, logWithColors, callback, logFilePath, maxFileSize,
                 AnsiLoggerCallback, AnsiLoggerCallbackLoglevel, AnsiLoggerFilePath,
                 AnsiLoggerFileLoglevel>>

\* what there is to tell of a call of log() that did r, of a logger whose
\* logStartTime is startTime; early are the sinks whose block threw before
\* it called getTimestamp (a callback block in parameters.join, logToFile in
\* stringify)
LogRecord(r, l, level, startTime, early) ==
  [NoCall EXCEPT !.op = "log", !.logger = l, !.level = level,
                 !.attempted = r.attempted, !.failed = r.failed, !.threw = r.threw,
                 !.consoleLines = r.consoleLines, !.forwarded = r.forwarded,
                 !.gates = r.gates, !.order = r.order,
                 !.reported = {f \in r.failed : caught(f)},
                 !.stamp = IF (r.attempted \ early) \cap StampingSinks # {}
                           THEN getTimestamp(startTime, logTimestampFormat[l], clock)
                           ELSE ""]

\* the state after a call of log() that did r
LogDone(r, l, level, faults, startTime, early) ==
  \* the faults given are those that happen, and the files stay within the bound
  /\ r.failed = faults
  /\ r.size <= MaxBytes /\ r.gsize <= MaxBytes
  /\ \A p \in AbsPaths : r.fs[p].app <= MaxBytes /\ r.fs[p].gapp <= MaxBytes
  /\ LogWritten(r, l)
  /\ last' = LogRecord(r, l, level, startTime, early)

\* log(level, message, ...parameters) of a logger whose logStartTime is
\* startTime, in which the sinks that throw do so when they are invoked
LogCall(l, level, n, faults, startTime) ==
  LogDone(logResult(l, level, n, faults), l, level, faults, startTime, {})

Log(l, level, n, faults) ==
  /\ LogCall(l, level, n, faults, logStartTime[l])
  /\ UNCHANGED <<timerVars, stringifyVars, logName>>

\* ------------------------------------------------------------------------
\* The timer and the timestamps

\* the instants that Date.now() returns
MaxClock == 3

\* time passes
Tick ==
  /\ clock < MaxClock
  /\ clock' = clock + 1
  /\ UNCHANGED <<instVars, globVars, files, logStartTime, logTimestampFormat,
                 stringifyVars, logName, last>>

\* set logTimestampFormat(logTimestampFormat)
SetLogTimestampFormat(l, v) ==
  /\ logTimestampFormat' = [logTimestampFormat EXCEPT ![l] = v]
  /\ last' = NoCall
  /\ UNCHANGED <<instVars, globVars, files, logStartTime, clock, stringifyVars, logName>>

\* now()
Now(l) ==
  /\ last' = [Did("now", l, Undefined) EXCEPT
                !.stamp = getTimestamp(logStartTime[l], logTimestampFormat[l], clock)]
  /\ UNCHANGED <<instVars, globVars, files, timerVars, stringifyVars, logName>>

\* startTimer(message): this.logStartTime = Date.now(); this.info(...)
StartTimer(l, n, faults) ==
  /\ logStartTime' = [logStartTime EXCEPT ![l] = clock]
  /\ LogCall(l, INFO, n, faults, clock)
  /\ UNCHANGED <<logTimestampFormat, clock, stringifyVars, logName>>

\* stopTimer(message): if a timer runs, this.info(...); then
\* this.logStartTime = 0, which is not reached when info throws
StopTimer(l, n, faults) ==
  /\ IF logStartTime[l] # 0
     THEN /\ LogCall(l, INFO, n, faults, logStartTime[l])
          /\ logStartTime' = IF logResult(l, INFO, n, faults).threw THEN logStartTime
                             ELSE [logStartTime EXCEPT ![l] = 0]
     ELSE /\ faults = {}
          /\ logStartTime' = [logStartTime EXCEPT ![l] = 0]
          /\ last' = Did("stopTimer", l, Undefined)
          /\ UNCHANGED <<instVars, globVars, files>>
  /\ UNCHANGED <<logTimestampFormat, clock, stringifyVars, logName>>

\* ------------------------------------------------------------------------
\* The message and the extra arguments of a log call.  A message is the
\* sequence of its characters; an extra argument is a value (an object
\* among them is the empty object o1).

\* rs and rk, with ESC for the escape character
rs == "ESC[40;0m"
rk == "ESC[K"

RECURSIVE join(_, _)
\* Array.prototype.join of strings
join(strings, separator) ==
  IF Len(strings) = 0 THEN ""
  ELSE IF Len(strings) = 1 THEN strings[1]
  ELSE strings[1] \o separator \o join(Tail(strings), separator)

\* the message as a string
asString(message) == join(message, "")

\* message.startsWith(searchString) and message.slice(start)
startsWith(message, searchString) ==
  /\ Len(message) >= Len(searchString)
  /\ SubSeq(message, 1, Len(searchString)) = searchString

slice(message, start) == SubSeq(message, start + 1, Len(message))

\* a string made, or the TypeError of the conversion of a symbol to a string
Made(string) == [threw |-> FALSE, out |-> string]
NotMade == [threw |-> TRUE, out |-> "TypeError: Cannot convert a Symbol value to a string"]

RECURSIVE joinElement(_, _, _)
RECURSIVE joinValues(_, _, _, _)

\* what join makes of an element: nothing of null and undefined, its
\* conversion to a string of another, which throws for a symbol, gives the
\* source text of a function (the functions here are function () {}),
\* [object Object] for an object and, for an array, its elements joined by
\* commas (nothing for an array that is being joined already: joining)
joinElement(heap, value, joining) ==
  CASE value.t \in {"null", "undefined"} -> Made("")
    [] value.t = "symbol" -> NotMade
    [] value.t = "function" -> Made("function () {}")
    [] value.t = "object" ->
         IF ~heap[value.v].isArray THEN Made("[object Object]")
         ELSE IF value.v \in joining THEN Made("")
         ELSE joinValues(heap,
                         [i \in 1..Len(heap[value.v].entries) |-> heap[value.v].entries[i].value],
                         ",", joining \cup {value.v})
    [] OTHER -> Made(value.v)

\* values.join(separator), which throws when the conversion of an element does
joinValues(heap, values, separator, joining) ==
  IF Len(values) = 0 THEN Made("")
  ELSE IF joinElement(heap, values[1], joining).threw THEN NotMade
  ELSE IF Len(values) = 1 THEN joinElement(heap, values[1], joining)
  ELSE IF joinValues(heap, Tail(values), separator, joining).threw THEN NotMade
  ELSE Made(joinElement(heap, values[1], joining).out \o separator
            \o joinValues(heap, Tail(values), separator, joining).out)

\* parameters.join(' ') throws
joinThrows(heap, parameters) == joinValues(heap, parameters, " ", {}).threw

\* the callbacks given the message alone
callbackMessageAlone(heap, message, parameters) ==
  IF joinThrows(heap, parameters) THEN NotMade ELSE Made(asString(message))

\* newMessage of the two callback blocks, or what making it throws:
\*   parametersString = parameters.length > 0 ? ' ' + parameters.join(' ') : ''
\*   newMessage = message + parametersString
callbackMessage(heap, message, parameters) ==
  IF joinThrows(heap, parameters) THEN NotMade
  ELSE Made(asString(message)
            \o (IF Len(parameters) > 0
                THEN " " \o joinValues(heap, parameters, " ", {}).out
                ELSE ""))

\* logToFile(filePath, level, message, ...parameters) serializes a
\* parameter that is an object with stringify, before it appends the line
logToFileThrows(parameter) ==
  parameter.root.t = "object" /\ stringify(HeapOf(parameter), parameter.root, {}).threw

\* the blocks of log(level, message, parameter) that throw, if they are
\* reached, before they call getTimestamp: the callback blocks when
\* parameters.join throws, the file blocks when stringify throws in logToFile
thrownEarly(parameter) ==
  (IF joinThrows(HeapOf(parameter), <<parameter.root>>)
   THEN {"callback", "globalCallback"} ELSE {})
  \cup (IF logToFileThrows(parameter) THEN {"logFile", "globalLogFile"} ELSE {})

\* what log(level, message, parameter) did when the blocks of thrown throw,
\* if they are reached
LogParameterDone(r, l, level, thrown) ==
  LogDone(r, l, level, r.failed, logStartTime[l], thrown)

\* log(level, message, parameter): when the parameter cannot be joined, the
\* callback blocks that the call reaches throw, and when it cannot be
\* serialized, logToFile throws in each file sink that the call reaches
LogParameter(l, level, n, parameter) ==
  /\ LogParameterDone(logResult(l, level, n, thrownEarly(parameter)), l, level,
                      thrownEarly(parameter))
  /\ UNCHANGED <<timerVars, stringifyVars, logName>>

\* the map of logToFile over parameters
logToFileParameter(parameter) ==
  CASE parameter.t = "null" -> "null"
    [] parameter.t = "undefined" -> "undefined"
    [] parameter.t = "object" -> stringify(HeapOf(NoPayload), parameter, {}).out
    [] parameter.t = "string" -> parameter.v
    [] parameter.t = "function" -> "(function)"
    [] parameter.t = "symbol" -> "Symbol(" \o parameter.v \o ")"
    [] OTHER -> parameter.v

\* messageLog of logToFile (the characters of the messages here are none of
\* those that its replacements remove or change)
logToFileLine(l, level, message, parameters, stamp) ==
  LET parametersString ==
        join([i \in 1..Len(parameters) |-> logToFileParameter(parameters[i])], " ")
  IN "[" \o stamp \o "] [" \o logName[l] \o "] [" \o level \o "] "
     \o asString(message) \o " " \o parametersString

\* the star prefix that takes any number of stars away
starPrefixAll(message) ==
  LET stars == CHOOSE k \in 0..Len(message) :
                 /\ \A i \in 1..k : message[i] = "*"
                 /\ k < Len(message) => message[k + 1] # "*"
  IN [logNameColor |-> IF stars = 0 THEN "_logNameColor"
                       ELSE IF stars >= 4 THEN "s4ln"
                       ELSE "s" \o ToString(stars) \o "ln",
      message |-> slice(message, stars)]

\* the if chain on message.startsWith('****') ... of the color path:
\* logNameColor and the message that it leaves
starPrefix(message) ==
  IF startsWith(message, <<"*", "*", "*", "*">>)
  THEN [logNameColor |-> "s4ln", message |-> slice(message, 4)]
  ELSE IF startsWith(message, <<"*", "*", "*">>)
  THEN [logNameColor |-> "s3ln", message |-> slice(message, 3)]
  ELSE IF startsWith(message, <<"*", "*">>)
  THEN [logNameColor |-> "s2ln", message |-> slice(message, 2)]
  ELSE IF startsWith(message, <<"*">>)
  THEN [logNameColor |-> "s1ln", message |-> slice(message, 1)]
  ELSE [logNameColor |-> "_logNameColor", message |-> message]

\* the arguments that a sink is given: a callback (level, time, name,
\* message), the delegate (level, message, ...parameters), appendFileSync the
\* line as message, console.log a first argument with level, time, name and
\* logNameColor, in the color path, or with the message as well, then the
\* message of the color path and the parameters
Given(level, time, name, logNameColor, message, parameters) ==
  [level |-> level, time |-> time, name |-> name, logNameColor |-> logNameColor,
   message |-> message, parameters |-> parameters]

given(sink, l, level, message, parameters, stamp) ==
  CASE sink \in {"callback", "globalCallback"} ->
         Given(level, stamp, logName[l], "",
               callbackMessage(HeapOf(NoPayload), message, parameters).out, <<>>)
    [] sink \in {"logFile", "globalLogFile"} ->
         Given("", "", "", "", logToFileLine(l, level, message, parameters, stamp), <<>>)
    [] sink = "extLog" -> Given(level, "", "", "", asString(message), parameters)
    [] sink = "console" ->
         IF logWithColors[l]
         THEN Given(level, stamp, logName[l], starPrefix(message).logNameColor,
                    asString(starPrefix(message).message) \o rs \o rk, parameters)
         ELSE Given(level, stamp, logName[l], "", asString(message), parameters)

\* the files hold one line of a message
MaxLine == 64

\* the state after log(level, message, ...parameters) that did r: the
\* callbacks that failed are those whose block threw in parameters.join, and
\* were given nothing
LogMessageDone(r, l, level, message, parameters) ==
  /\ r.size <= MaxLine /\ r.gsize <= MaxLine
  /\ LogWritten(r, l)
  /\ last' = [LogRecord(r, l, level, logStartTime[l], r.failed) EXCEPT
                !.arg = [message |-> message, parameters |-> parameters],
                !.received = [sink \in r.attempted \ r.failed |->
                                given(sink, l, level, message, parameters,
                                      getTimestamp(logStartTime[l], logTimestampFormat[l],
                                                   clock))]]
  /\ UNCHANGED <<timerVars, stringifyVars, logName>>

\* log(level, message, ...parameters), no sink failing: a callback block
\* throws when parameters.join does
LogMessage(l, level, message, parameters) ==
  LogMessageDone(
    logResult(l, level,
              Len(logToFileLine(l, level, message, parameters,
                                getTimestamp(logStartTime[l], logTimestampFormat[l], clock)))
                + 1,
              IF callbackMessage(HeapOf(NoPayload), message, parameters).threw
              THEN {"callback", "globalCallback"} ELSE {}),
    l, level, message, parameters)

\* ------------------------------------------------------------------------
\* params.logCustomTimestampFormat ?? 'yyyy-MM-dd HH:mm:ss'
constructorCustomTimestampFormat(pFormat) ==
  IF pFormat # Undefined THEN pFormat ELSE "yyyy-MM-dd HH:mm:ss"

\* new AnsiLogger(params), the logger l being the new object.  A parameter
\* that is not given is undefined; logDebug is whether it is true, extLog
\* whether a delegate is given.  The custom pattern of the new object is
\* told in last.
Construct(l, params) ==
  /\ extLog' = [extLog EXCEPT ![l] = params.extLog]
  /\ logLevel' = [logLevel EXCEPT ![l] = constructorLogLevel(params.logLevel, params.logDebug)]
  /\ logWithColors' = [logWithColors EXCEPT ![l] = constructorLogWithColors(params.logWithColors)]
  /\ logTimestampFormat' =
       [logTimestampFormat EXCEPT ![l] = constructorTimestampFormat(params.logTimestampFormat)]
  /\ logStartTime' = [logStartTime EXCEPT ![l] = 0]
  /\ callback' = [callback EXCEPT ![l] = FALSE]
  /\ logFilePath' = [logFilePath EXCEPT ![l] = Undefined]
  /\ logFileSize' = [logFileSize EXCEPT ![l] = NoSize]
  /\ maxFileSize' = [maxFileSize EXCEPT ![l] = MaxFileSizeCeiling]
  /\ logName' = [logName EXCEPT ![l] = constructorLogName(params.logName)]
  /\ last' = [Did("constructor", l, params) EXCEPT
                !.received =
                  [logCustomTimestampFormat |->
                     constructorCustomTimestampFormat(params.logCustomTimestampFormat)]]
  /\ UNCHANGED <<globVars, files, clock, stringifyVars>>

\* ------------------------------------------------------------------------
\* log() is synchronous: its callbacks, appendFileSync, the delegate and
\* console.log are plain calls, so a call returns before the next one is
\* made.  The invocations of a call r, after those of the call before it
\* when that was the operation just before.
eventsAfter(before, r) ==
  LET earlier == IF before.op = "log"
                 THEN [i \in 1..Len(before.order) |-> [call |-> 1, sink |-> before.order[i]]]
                 ELSE <<>>
  IN earlier \o [i \in 1..Len(r.order) |->
                   [call |-> IF before.op = "log" THEN 2 ELSE 1, sink |-> r.order[i]]]

LogInTurnDone(r, l, level, faults) ==
  /\ r.failed = faults
  /\ r.size <= MaxBytes /\ r.gsize <= MaxBytes
  /\ \A p \in AbsPaths : r.fs[p].app <= MaxBytes /\ r.fs[p].gapp <= MaxBytes
  /\ LogWritten(r, l)
  /\ last' = [LogRecord(r, l, level, logStartTime[l], {}) EXCEPT
                !.events = eventsAfter(last, r)]
  /\ UNCHANGED <<timerVars, stringifyVars, logName>>

\* log(level, message, ...parameters), with the invocations of the call
\* before it
LogInTurn(l, level, n, faults) ==
  LogInTurnDone(logResult(l, level, n, faults), l, level, faults)

\* the sets of at most MaxFaults invocations, among points, that may throw
\* in one call
FaultSets(points) == {f \in SUBSET points : Cardinality(f) <= MaxFaults}

\* ------------------------------------------------------------------------
\* The specification of the sinks: one logger with a delegate or not, its
\* callback and file set or not, the process-wide callback and file set or
\* not, each with its own level, and log calls of every level in which any
\* sink may fail.  A line is as long as the bound, so that a file takes one.
\* The levels are samples: a process-wide level is undefined at first, then
\* INFO or ERROR; the message levels lie below, between and above these.

ConfiguredLevels == {NONE, INFO, ERROR}
GlobalLevels == {INFO, ERROR}
MessageLevels == {NONE, DEBUG, INFO, WARN, FATAL}

Init == InitWith(ConfiguredLevels, {FALSE}, {Undefined}, BOOLEAN, {})

Next ==
  \/ \E v \in ConfiguredLevels : SetLogLevel("L1", v)
  \/ \E cb \in BOOLEAN, v \in GlobalLevels : SetGlobalCallback(cb, v)
  \/ \E cb \in BOOLEAN : SetCallback("L1", cb)
  \/ \E v \in GlobalLevels : SetGlobalCallbackLevel(v)
  \/ \E fp \in {"a.log", Undefined} : SetLogFilePath("L1", fp, FALSE, FALSE)
  \/ \E fp \in {"b.log", Undefined}, v \in GlobalLevels :
       SetGlobalLogfile(fp, v, FALSE, FALSE, FALSE)
  \/ \E v \in GlobalLevels : SetGlobalLogfileLevel(v)
  \/ \E level \in MessageLevels,
        faults \in FaultSets({"callback", "globalCallback", "logFile", "globalLogFile", "extLog"}) :
       Log("L1", level, MaxBytes, faults)

Spec == Init /\ [][Next]_vars

\* ------------------------------------------------------------------------
\* The specification of the console: a logger of any level, with colors or
\* not, with a delegate or not, and no callback and no file.

InitConsole ==
  InitWith(LogLevel \cup {Undefined}, BOOLEAN, {Undefined, "true", "false"}, BOOLEAN, {})

NextConsole ==
  \/ \E v \in LogLevel : SetLogLevel("L1", v)
  \/ \E v \in BOOLEAN : SetLogWithColors("L1", v)
  \/ \E level \in LogLevel, faults \in FaultSets({"extLog"}) : Log("L1", level, 1, faults)

SpecConsole == InitConsole /\ [][NextConsole]_vars

\* ------------------------------------------------------------------------
\* The specification of the instance file: one logger at level INFO whose
\* file path and cap are assigned again and again, with paths that are
\* usable or not, files that exist already or not, a failing path.resolve
\* or unlinkSync, and log calls that pass the level gate or not, of lines of
\* different lengths, in which the write or the sentinel may fail.

InitFile == InitWith({INFO}, {FALSE}, {Undefined}, {FALSE}, AbsPaths)

NextFile ==
  \/ \E fp \in RelPaths \cup {"/cwd/a.log"} \cup BadPaths, rf \in BOOLEAN, uf \in BOOLEAN :
       SetLogFilePath("L1", fp, rf, uf)
  \/ \E v \in MaxFileSizes : SetMaxFileSize("L1", v)
  \/ \E level \in {DEBUG, WARN}, n \in LineSizes,
        faults \in FaultSets({"logFile", "logFileStop"}) :
       Log("L1", level, n, faults)

SpecFile == InitFile /\ [][NextFile]_vars

\* ------------------------------------------------------------------------
\* The statements of the properties

\* the order DEBUG < INFO < NOTICE < WARN < ERROR < FATAL
rank(level) ==
  CASE level = DEBUG -> 1 [] level = INFO -> 2 [] level = NOTICE -> 3
    [] level = WARN -> 4 [] level = ERROR -> 5 [] level = FATAL -> 6

Severities == {DEBUG, INFO, NOTICE, WARN, ERROR, FATAL}

\* the message level m is at least as severe as the configured level c
Passes(m, c) == m \in Severities /\ c \in Severities /\ rank(c) <= rank(m)

\* the failures of the four sinks that log() guards
GuardedFaults == {"callback", "globalCallback", "logFile", "logFileStop",
                  "globalLogFile", "globalLogFileStop"}

\* sink s is due in a call of logger l with message level m, in the state
\* before the call
Due(s, l, m) ==
  CASE s = "callback" -> callback[l] /\ Passes(m, logLevel[l])
    [] s = "globalCallback" -> AnsiLoggerCallback /\ Passes(m, AnsiLoggerCallbackLoglevel)
    [] s = "logFile" -> /\ logFilePath[l] # Undefined
                        /\ logFileSize[l] # NoSize /\ logFileSize[l] < maxFileSize[l]
                        /\ Passes(m, logLevel[l])
    [] s = "globalLogFile" -> /\ AnsiLoggerFilePath # Undefined
                              /\ AnsiLoggerFileLogSize # NoSize
                              /\ AnsiLoggerFileLogSize < maxFileSize[l]
                              /\ Passes(m, AnsiLoggerFileLoglevel)
    [] s = "extLog" -> extLog[l] /\ m # NONE
    [] s = "console" -> ~extLog[l] /\ Passes(m, logLevel[l])

\* C1: a log call never throws to its caller, whichever sink fails.
\* (Stated as the claim has it; the delegate's exception is not caught.)
C1_LogNeverThrows == last.op = "log" => ~last.threw

\* C2: when the instance callback, the process-wide callback, the instance
\* file write or the process-wide file write throws in a log call, every
\* sink that is due in that call is invoked all the same.
C2_FailureIsolation ==
  [][(last'.op = "log" /\ last'.failed # {} /\ last'.failed \subseteq GuardedFaults)
       => \A s \in Sinks : Due(s, last'.logger, last'.level) => s \in last'.attempted]_vars

C2_Witness ==
  /\ last.op = "log"
  /\ last.failed = {"callback"}
  /\ last.attempted = {"callback", "globalCallback", "logFile", "globalLogFile", "console"}

\* C3 as stated: the gate is open iff the rank of the message level is at
\* most the rank of the configured level, and closed if either is NONE.
C3_Original ==
  last.op = "log" =>
    (last.gates.inst <=> /\ last.level \in Severities
                         /\ logLevel[last.logger] \in Severities
                         /\ rank(last.level) <= rank(logLevel[last.logger]))

\* C3 amended: shouldLog(m, c) is true iff the rank of the configured level
\* c is at most the rank of the message level m (the message is at least as
\* severe as the configured level), and false if either is NONE.
C3_LevelGate ==
  last.op = "log" =>
    /\ last.gates.inst <=> Passes(last.level, logLevel[last.logger])
    /\ (last.level = NONE \/ logLevel[last.logger] = NONE) => ~last.gates.inst

C3_Witness ==
  /\ last.op = "log" /\ last.level = WARN /\ logLevel[last.logger] = INFO
  /\ last.gates.inst

\* C4: without a delegate, a log call of level m on a logger of level c
\* (both DEBUG..FATAL) prints exactly one console line when m is at least
\* as severe as c and none otherwise, with colors and without.
C4_ConsoleGate ==
  (/\ last.op = "log" /\ ~extLog[last.logger]
   /\ last.level \in Severities /\ logLevel[last.logger] \in Severities)
    => last.consoleLines = IF rank(last.level) >= rank(logLevel[last.logger]) THEN 1 ELSE 0

C4_Witness ==
  /\ last.op = "log" /\ ~extLog[last.logger] /\ ~logWithColors[last.logger]
  /\ last.level = ERROR /\ logLevel[last.logger] = WARN
  /\ last.consoleLines = 1

\* C5: a log call of level NONE invokes no sink and writes nothing; a logger
\* of level NONE prints no console line, invokes no instance callback and
\* writes no instance file line, whatever the message level.
C5_NoneSilences ==
  [][last'.op = "log" =>
       /\ last'.level = NONE =>
            /\ last'.attempted = {} /\ last'.consoleLines = 0 /\ last'.forwarded = 0
            /\ files' = files /\ logFileSize' = logFileSize
            /\ AnsiLoggerFileLogSize' = AnsiLoggerFileLogSize
       /\ logLevel[last'.logger] = NONE =>
            /\ last'.attempted \cap {"console", "callback", "logFile"} = {}
            /\ last'.consoleLines = 0
            /\ logFileSize' = logFileSize]_vars

C5_Witness ==
  /\ last.op = "log" /\ last.level = NONE /\ last.attempted = {}
  /\ extLog[last.logger] /\ callback[last.logger] /\ logFilePath[last.logger] # Undefined
  /\ AnsiLoggerCallback /\ AnsiLoggerCallbackLoglevel = INFO
  /\ AnsiLoggerFilePath # Undefined /\ AnsiLoggerFileLoglevel = INFO
  /\ logLevel[last.logger] = INFO

\* C6: the process-wide callback is invoked iff it is set and the message
\* level passes against the process-wide callback level, and the
\* process-wide file is written iff it is open (set, its counter below the
\* cap) and the message level passes against the process-wide file level;
\* neither depends on the level of the logger that is called.
C6_PerSinkGating ==
  [][last'.op = "log" =>
       /\ "globalCallback" \in last'.attempted
            <=> (AnsiLoggerCallback /\ Passes(last'.level, AnsiLoggerCallbackLoglevel))
       /\ "globalLogFile" \in last'.attempted
            <=> (/\ AnsiLoggerFilePath # Undefined
                 /\ AnsiLoggerFileLogSize # NoSize
                 /\ AnsiLoggerFileLogSize < maxFileSize[last'.logger]
                 /\ Passes(last'.level, AnsiLoggerFileLoglevel))]_vars

\* the process-wide sinks are reached while the instance's callback, file
\* and console stay silent
C6_Witness ==
  /\ last.op = "log" /\ last.level = INFO
  /\ logLevel[last.logger] = ERROR
  /\ callback[last.logger] /\ logFilePath[last.logger] # Undefined /\ ~extLog[last.logger]
  /\ last.attempted = {"globalCallback", "globalLogFile"}

\* C7 as stated: a call is forwarded to the delegate only if the message
\* level passes the gate against the level of the logger.
C7_Original ==
  (last.op = "log" /\ last.forwarded = 1) => Passes(last.level, logLevel[last.logger])

\* C7 amended: with a delegate configured, a log call is forwarded to the
\* delegate iff the message level is not NONE, whatever the level of the
\* logger.
C7_DelegateForward ==
  (last.op = "log" /\ extLog[last.logger])
    => (last.forwarded = 1 <=> last.level # NONE)

C7_Witness ==
  /\ last.op = "log" /\ extLog[last.logger]
  /\ last.level = DEBUG /\ logLevel[last.logger] = INFO
  /\ last.forwarded = 1

\* C8: with a delegate configured no log call prints a console line, and
\* the two callbacks and the two files are invoked exactly when they are
\* due, which does not depend on the delegate.
C8_DelegateBypass ==
  [][(last'.op = "log" /\ extLog[last'.logger]) =>
       /\ last'.consoleLines = 0 /\ "console" \notin last'.attempted
       /\ \A s \in {"callback", "globalCallback", "logFile", "globalLogFile"} :
            s \in last'.attempted <=> Due(s, last'.logger, last'.level)]_vars

C8_Witness ==
  /\ last.op = "log" /\ extLog[last.logger]
  /\ last.attempted = {"callback", "globalCallback", "logFile", "globalLogFile", "extLog"}
  /\ last.consoleLines = 0

\* C9 as stated, the part on the sentinel: between two assignments of
\* logFilePath the file of the instance sink never holds more than one
\* sentinel line, whatever the log calls and the changes of maxFileSize.
C9_Original ==
  \A l \in Loggers :
    logFilePath[l] # Undefined => files[logFilePath[l]].stop <= 1

\* C9 amended: no application line is written while the counter is at or
\* above the current cap (nothing at all is written then); a sentinel line
\* is appended only by a write that takes the counter from below the current
\* cap to or past it, one per such write, and by every such write unless the
\* append of the sentinel fails.  (So a second sentinel needs maxFileSize to
\* be raised above the counter in between.)
C9_FileCap ==
  [][\A l \in Loggers :
       (last'.op = "log" /\ last'.logger = l /\ logFilePath[l] # Undefined) =>
         LET p == logFilePath[l]
             below == logFileSize[l] < maxFileSize[l]
             crosses == below /\ logFileSize'[l] >= maxFileSize[l]
         IN /\ files'[p].app > files[p].app => below
            /\ ~below => (files'[p] = files[p] /\ logFileSize'[l] = logFileSize[l])
            /\ files'[p].stop # files[p].stop
                 => (files'[p].stop = files[p].stop + 1 /\ crosses)
            /\ (crosses /\ "logFileStop" \notin last'.failed)
                 => files'[p].stop = files[p].stop + 1]_vars

\* the write that took the counter past the cap and appended the sentinel
C9_Witness ==
  /\ last.op = "log" /\ "logFile" \in last.attempted /\ last.failed = {}
  /\ logFilePath[last.logger] # Undefined
  /\ logFileSize[last.logger] >= maxFileSize[last.logger]
  /\ files[logFilePath[last.logger]].stop = 1
  /\ files[logFilePath[last.logger]].app = logFileSize[last.logger]

\* C10: assigning a usable path to logFilePath (path.resolve and the unlink
\* of an existing file succeed), from any prior state, stores the resolved
\* path, sets the counter to 0 and leaves no file at that path, so that
\* under a positive cap the sink writes again.
C10_PathAssign ==
  (last.op = "logFilePath" /\ usablePath(last.arg) /\ last.failed = {}) =>
    /\ logFilePath[last.logger] = resolve(last.arg)
    /\ logFileSize[last.logger] = 0
    /\ ~existsSync(files, resolve(last.arg))
    /\ maxFileSize[last.logger] > 0 => logFileSize[last.logger] < maxFileSize[last.logger]

\* the path is assigned again when the sink had stopped at the cap and its
\* file held lines
C10_Witness ==
  /\ last.op = "logFilePath" /\ usablePath(last.arg) /\ last.failed = {}
  /\ "unlink" \in last.attempted
  /\ last.prior >= maxFileSize[last.logger]
  /\ logFilePath[last.logger] = "/cwd/a.log" /\ logFileSize[last.logger] = 0
  /\ ~files["/cwd/a.log"].exists

\* ------------------------------------------------------------------------
\* The specification of the assignments of the file path next to the other
\* sinks: one logger at level INFO, with a delegate or not, whose file path
\* is assigned a usable path or undefined, the empty string or a value that
\* is not a string, over a file that exists or not and whose unlink may
\* fail, whose callback and the process-wide callback are set or cleared,
\* and log calls that pass the gate or not.

InitPath == InitWith({INFO}, {FALSE}, {Undefined}, BOOLEAN, {"/cwd/a.log"})

NextPath ==
  \/ \E fp \in {"a.log"} \cup BadPaths, uf \in BOOLEAN : SetLogFilePath("L1", fp, FALSE, uf)
  \/ \E cb \in BOOLEAN : SetCallback("L1", cb)
  \/ \E cb \in BOOLEAN : SetGlobalCallback(cb, INFO)
  \/ \E level \in {DEBUG, WARN} : Log("L1", level, 1, {})

SpecPath == InitPath /\ [][NextPath]_vars

\* C11: assigning undefined, the empty string, a value that is not a string,
\* or a path whose existing file cannot be deleted to logFilePath does not
\* throw and leaves logFilePath undefined; while it is undefined a log call
\* attempts no instance-file write and adds no line to any file, and each
\* other sink is invoked exactly when it is due.
C11_InvalidPath ==
  [][/\ (last'.op = "logFilePath" /\ (~usablePath(last'.arg) \/ "unlink" \in last'.failed))
          => (~last'.threw /\ logFilePath'[last'.logger] = Undefined)
     /\ (last'.op = "log" /\ logFilePath[last'.logger] = Undefined)
          => /\ "logFile" \notin last'.attempted
             /\ \A p \in AbsPaths : files'[p].app = files[p].app /\ files'[p].stop = files[p].stop
             /\ logFilePath'[last'.logger] = Undefined
             /\ \A s \in Sinks \ {"logFile"} :
                  s \in last'.attempted <=> Due(s, last'.logger, last'.level)]_vars

\* a log call after the sink that had written lines was disabled: the
\* callbacks run, the file keeps its lines
C11_Witness ==
  /\ last.op = "log" /\ logFilePath[last.logger] = Undefined
  /\ files["/cwd/a.log"].app > 0
  /\ {"callback", "globalCallback"} \subseteq last.attempted
  /\ "logFile" \notin last.attempted

\* ------------------------------------------------------------------------
\* The specification of stringify: it is given null, undefined, or the
\* container o1 of a heap of three containers.  o2 and o3 are objects or
\* arrays; o1 has up to MaxEntries entries and o2 and o3 up to one, each a
\* string, a symbol or a reference to o1, o2 or o3, so that the heap has
\* self-loops, cycles of length two and three and the same container under
\* two keys; or else one of o1 and o3 holds just below MaxKeys or MaxKeys
\* numbers before its entries, so that a container at the size guard is the
\* root, an entry of the root or an entry of an entry.

\* the payloads with up to n entries in the root: those without numbers,
\* and those in which o1 or o3 holds the numbers
PayloadsUpTo(n) ==
  {[NoPayload EXCEPT !.arrays = arrays, !.root = Ref("o1"),
                     !.values = [o \in Objs |-> IF o = "o1" THEN v1
                                                ELSE IF o = "o2" THEN v2 ELSE v3]] :
     arrays \in SUBSET {"o2", "o3"},
     v1 \in SeqsUpTo(EntryValues, n), v2 \in SeqsUpTo(EntryValues, 1),
     v3 \in SeqsUpTo(EntryValues, 1)}
  \cup
  {[arrays |-> arrays, filled |-> filled, fill |-> fill,
    values |-> [o \in Objs |-> IF o = "o1" THEN v1 ELSE IF o = "o2" THEN v2 ELSE v3],
    root |-> Ref("o1")] :
     arrays \in SUBSET {"o3"}, filled \in {"o1", "o3"}, fill \in Fills,
     v1 \in SeqsUpTo(FilledEntryValues, n), v2 \in {<<>>, <<Ref("o3")>>},
     v3 \in SeqsUpTo({Ref("o1"), Value("string", "abc")}, 1)}
  \cup {[NoPayload EXCEPT !.root = root] : root \in {Null, Undef}}

InitStringify ==
  /\ InitLoggers({INFO}, {FALSE}, {Undefined}, {FALSE}, {})
  /\ stringifyPayload \in PayloadsUpTo(MaxEntries)
  /\ stringifyResult = NotRendered

\* stringify(payload)
Stringify ==
  /\ \E r \in {stringify(HeapOf(stringifyPayload), stringifyPayload.root, {})} :
       stringifyResult' = [threw |-> r.threw, out |-> r.out, done |-> TRUE]
  /\ last' = NoCall
  /\ UNCHANGED <<instVars, globVars, files, timerVars, stringifyPayload, logName>>

NextStringify == Stringify

SpecStringify == InitStringify /\ [][NextStringify]_vars

\* ------------------------------------------------------------------------
\* The rendering of a value as the properties state it: a container is
\* rendered in the context of the containers on the path from the root down
\* to it (path), without any set that changes.  A reference to a container
\* renders as [Circular] when the container is on the path and as {...}
\* when it has MaxKeys entries or more; circularFirst says which of the two
\* is looked at first, and rootGuarded whether the size guard applies to
\* the root as well.

RECURSIVE Rendering(_, _, _, _)
RECURSIVE Joined(_, _, _, _, _, _)

Expansion(heap, o, path, circularFirst) ==
  (IF heap[o].isArray THEN "[ " ELSE "{ ")
  \o Joined(heap, o, 1, Len(heap[o].entries), path, circularFirst)
  \o " " \o (IF heap[o].isArray THEN "]" ELSE "}")

Joined(heap, o, from, to, path, circularFirst) ==
  IF from > to THEN ""
  ELSE IF from = to
  THEN (IF from > 1 THEN ", " ELSE "")
       \o (IF heap[o].isArray THEN "" ELSE heap[o].entries[from].key \o ": ")
       \o Rendering(heap, heap[o].entries[from].value, path, circularFirst)
  ELSE Joined(heap, o, from, (from + to) \div 2, path, circularFirst)
       \o Joined(heap, o, (from + to) \div 2 + 1, to, path, circularFirst)

Rendering(heap, value, path, circularFirst) ==
  CASE value.t \in {"null", "undefined"} -> value.t
    [] value.t = "string" -> "'" \o value.v \o "'"
    [] value.t \in {"number", "bigint", "boolean"} -> value.v
    [] value.t = "function" -> "(function)"
    [] value.t = "symbol" -> "Symbol(" \o value.v \o ")"
    [] value.t = "object" ->
         LET onPath == value.v \in path
             large == Len(heap[value.v].entries) >= MaxKeys
         IN IF onPath /\ (circularFirst \/ ~large) THEN "[Circular]"
            ELSE IF large THEN "{...}"
            ELSE Expansion(heap, value.v, path \cup {value.v}, circularFirst)

RootRendering(heap, root, rootGuarded, circularFirst) ==
  IF root.t # "object" THEN root.t
  ELSE IF rootGuarded /\ Len(heap[root.v].entries) >= MaxKeys THEN "{...}"
  ELSE Expansion(heap, root.v, {root.v}, circularFirst)

\* the payload holds no symbol
SymbolFree(p) ==
  \A o \in Objs : \A i \in 1..Len(p.values[o]) : p.values[o][i].t # "symbol"

\* container a has an entry that is container b; b is reached from a
RefersTo(p, a, b) == \E i \in 1..Len(p.values[a]) : p.values[a][i] = Ref(b)
Reaches(p, a, b) ==
  \/ RefersTo(p, a, b)
  \/ \E c \in Objs : RefersTo(p, a, c) /\ RefersTo(p, c, b)
  \/ \E c, d \in Objs : RefersTo(p, a, c) /\ RefersTo(p, c, d) /\ RefersTo(p, d, b)

\* the root lies on a cycle or reaches one
HasCycle(p) ==
  /\ p.root.t = "object"
  /\ \E o \in Objs : (o = p.root.v \/ Reaches(p, p.root.v, o)) /\ Reaches(p, o, o)

\* the payload whose containers have just the given values
Plain(p, v1, v2, v3, arrays) ==
  /\ p.root = Ref("o1") /\ p.fill = 0 /\ p.arrays = arrays
  /\ p.values["o1"] = v1 /\ p.values["o2"] = v2 /\ p.values["o3"] = v3

\* C12: on a payload with a cycle stringify returns, and each reference to
\* a container on the current path is rendered as [Circular].  (It does not
\* hold of the program: a root of MaxKeys entries or more is expanded, and a
\* reference back to it is rendered as {...}.)
C12_Original ==
  (stringifyResult.done /\ SymbolFree(stringifyPayload) /\ HasCycle(stringifyPayload)) =>
    /\ ~stringifyResult.threw
    /\ stringifyResult.out
         = RootRendering(HeapOf(stringifyPayload), stringifyPayload.root, FALSE, TRUE)

\* What stringify does: it returns on every payload, with cycles of any
\* length or without (it throws only for a value of a type it does not
\* know); a reference to a container on the current path is rendered as
\* [Circular], unless that container has MaxKeys entries or more (it is the
\* root then), when the reference is rendered as {...}.
C12_Cycles ==
  (stringifyResult.done /\ SymbolFree(stringifyPayload)) =>
    /\ ~stringifyResult.threw
    /\ HasCycle(stringifyPayload) =>
         stringifyResult.out
           = RootRendering(HeapOf(stringifyPayload), stringifyPayload.root, FALSE, FALSE)
    /\ Plain(stringifyPayload, <<Ref("o1")>>, <<>>, <<>>, {})
         => stringifyResult.out = "{ a: [Circular] }"
    /\ Plain(stringifyPayload, <<Ref("o2")>>, <<Ref("o1")>>, <<>>, {})
         => stringifyResult.out = "{ a: { a: [Circular] } }"
    /\ Plain(stringifyPayload, <<Ref("o2")>>, <<Ref("o1")>>, <<>>, {"o2"})
         => stringifyResult.out = "{ a: [ [Circular] ] }"
    /\ Plain(stringifyPayload, <<Ref("o2")>>, <<Ref("o2")>>, <<>>, {})
         => stringifyResult.out = "{ a: { a: [Circular] } }"

\* a cycle of length three through an array
C12_Witness ==
  /\ stringifyResult.done
  /\ Plain(stringifyPayload, <<Ref("o2")>>, <<Ref("o3")>>, <<Ref("o1")>>, {"o2"})
  /\ stringifyResult.out = "{ a: [ { a: [Circular] } ] }"

\* C13: a nested container is rendered as [Circular] if and only if it is
\* one of the containers on the current path from the root down to it.  (It
\* does not hold of the program: a root of MaxKeys entries or more is
\* expanded, and it is on the path of a reference back to it, which is
\* rendered as {...}.)
C13_Original ==
  (stringifyResult.done /\ SymbolFree(stringifyPayload)) =>
    stringifyResult.out
      = RootRendering(HeapOf(stringifyPayload), stringifyPayload.root, FALSE, TRUE)

\* What stringify does: a nested container is rendered as [Circular] if and only if
\* it is, by identity, one of the containers on the current path from the
\* root down to it and has fewer than MaxKeys entries (one with MaxKeys
\* entries or more is rendered as {...}, on the path or not); a container
\* that two entries of the root refer to is rendered in the same way in both
\* places, expanded if it has fewer than MaxKeys entries.
C13_Ancestors ==
  (stringifyResult.done /\ SymbolFree(stringifyPayload)) =>
    /\ stringifyResult.out
         = RootRendering(HeapOf(stringifyPayload), stringifyPayload.root, FALSE, FALSE)
    /\ \A o \in {"o2", "o3"} :
         (/\ stringifyPayload.root = Ref("o1")
          /\ stringifyPayload.values["o1"] = <<Ref(o), Ref(o)>>
          /\ stringifyPayload.filled # "o1" \/ stringifyPayload.fill = 0)
         => /\ stringifyResult.out
                 = "{ a: " \o Rendering(HeapOf(stringifyPayload), Ref(o), {"o1"}, FALSE)
                   \o ", b: " \o Rendering(HeapOf(stringifyPayload), Ref(o), {"o1"}, FALSE)
                   \o " }"
            /\ Len(HeapOf(stringifyPayload)[o].entries) < MaxKeys
                 => Rendering(HeapOf(stringifyPayload), Ref(o), {"o1"}, FALSE)
                      \notin {"[Circular]", "{...}"}
    /\ Plain(stringifyPayload, <<Ref("o2"), Ref("o2")>>, <<>>, <<>>, {})
         => stringifyResult.out = "{ a: {  }, b: {  } }"

\* one container under two keys of the root, expanded twice
C13_Witness ==
  /\ stringifyResult.done
  /\ Plain(stringifyPayload, <<Ref("o2"), Ref("o2")>>, <<Value("string", "abc")>>, <<>>, {})
  /\ stringifyResult.out = "{ a: { a: 'abc' }, b: { a: 'abc' } }"

\* C14: a container with MaxKeys entries or more is rendered as {...}
\* instead of being expanded, at the root as well as below it, and one with
\* fewer entries is expanded.  (Stated as the claim has it; the root is
\* expanded whatever its size.)
C14_SizeGuard ==
  (stringifyResult.done /\ SymbolFree(stringifyPayload)) =>
    /\ ~stringifyResult.threw
    /\ stringifyResult.out
         = RootRendering(HeapOf(stringifyPayload), stringifyPayload.root, TRUE, FALSE)

\* C15: an entry whose value is a symbol is rendered as
\* Symbol(<description>) and stringify does not throw.  (Stated as the
\* claim has it; the type dispatch has no branch for a symbol.)
C15_Symbol ==
  (stringifyResult.done
   /\ Plain(stringifyPayload, <<Value("symbol", "testSymbol")>>, <<>>, <<>>, {})) =>
    /\ ~stringifyResult.threw
    /\ stringifyResult.out = "{ a: Symbol(testSymbol) }"

\* how C20 has the entries of the enclosing container rendered when o3 has
\* MaxKeys entries or more
HugeOrString(value) == IF value = Ref("o3") THEN "{...}" ELSE "'" \o value.v \o "'"

\* C20: a container, object or array, with MaxKeys entries or more that is
\* the value of an entry of another container is rendered as {...}, and the
\* entries of the enclosing container before and after it are rendered as
\* they are without it.
C20_NestedGuard ==
  (/\ stringifyResult.done
   /\ stringifyPayload.root = Ref("o1")
   /\ stringifyPayload.filled = "o3" /\ stringifyPayload.fill >= MaxKeys
   /\ Len(stringifyPayload.values["o1"]) \in 1..2
   /\ \A i \in 1..Len(stringifyPayload.values["o1"]) :
        stringifyPayload.values["o1"][i] \in {Ref("o3"), Value("string", "abc")}) =>
    /\ ~stringifyResult.threw
    /\ stringifyResult.out
         = "{ a: " \o HugeOrString(stringifyPayload.values["o1"][1])
           \o (IF Len(stringifyPayload.values["o1"]) = 2
               THEN ", b: " \o HugeOrString(stringifyPayload.values["o1"][2]) ELSE "")
           \o " }"
    /\ stringifyPayload.values["o1"] = <<Ref("o3")>> => stringifyResult.out = "{ a: {...} }"

\* an array of MaxKeys numbers after a string
C20_Witness ==
  /\ stringifyResult.done
  /\ stringifyPayload.filled = "o3" /\ stringifyPayload.fill = MaxKeys
  /\ "o3" \in stringifyPayload.arrays
  /\ stringifyPayload.values["o1"] = <<Value("string", "abc"), Ref("o3")>>
  /\ stringifyResult.out = "{ a: 'abc', b: {...} }"

\* ------------------------------------------------------------------------
\* The specification of the extra argument of a log call: one logger at
\* level INFO, with a delegate or not, whose callback and file and the
\* process-wide callback and file are set or not, and log calls with one
\* extra argument: null, an object or an array that stringify renders, or
\* an object or an array with a symbol, for which it throws.

LogParameters ==
  {[NoPayload EXCEPT !.root = Null],
   [NoPayload EXCEPT !.root = Ref("o1"), !.values["o1"] = <<Value("string", "abc")>>],
   [NoPayload EXCEPT !.root = Ref("o1"), !.values["o1"] = <<Value("symbol", "testSymbol")>>],
   [NoPayload EXCEPT !.root = Ref("o1"), !.arrays = {"o1"},
                     !.values["o1"] = <<Value("string", "abc")>>],
   [NoPayload EXCEPT !.root = Ref("o1"), !.arrays = {"o1"},
                     !.values["o1"] = <<Value("symbol", "testSymbol")>>]}

InitParameter == InitWith({INFO}, {FALSE}, {Undefined}, BOOLEAN, {})

NextParameter ==
  \/ \E cb \in BOOLEAN : SetCallback("L1", cb)
  \/ \E cb \in BOOLEAN : SetGlobalCallback(cb, INFO)
  \/ \E fp \in {"a.log", Undefined} : SetLogFilePath("L1", fp, FALSE, FALSE)
  \/ \E fp \in {"b.log", Undefined} : SetGlobalLogfile(fp, INFO, FALSE, FALSE, FALSE)
  \/ \E level \in {DEBUG, WARN}, parameter \in LogParameters :
       LogParameter("L1", level, 1, parameter)

SpecParameter == InitParameter /\ [][NextParameter]_vars

\* C16: when stringify throws its 'unknown type' error for the extra
\* argument of a log call, in a file sink that the call reaches, the call
\* does not throw, each failure is written to console.error, only the file
\* sinks that the call reached have failed, and every sink that is due is
\* invoked: both callbacks, both file sinks, and the delegate or the
\* console.  (It does not hold of the program: for an array that holds a
\* symbol the callback blocks throw too, in parameters.join.)
C16_SerializerError ==
  [][\A level \in LogLevel, parameter \in LogParameters :
       (/\ LogParameter("L1", level, 1, parameter) /\ logToFileThrows(parameter)
        /\ \E s \in {"logFile", "globalLogFile"} : Due(s, "L1", level)) =>
         /\ ~last'.threw
         /\ last'.reported = last'.failed
         /\ last'.failed = {s \in {"logFile", "globalLogFile"} : Due(s, "L1", level)}
         /\ \A s \in Sinks : Due(s, "L1", level) => s \in last'.attempted]_vars

\* both file writes failed and both callbacks and the console ran (the
\* extra argument is an object that holds a symbol)
C16_Witness ==
  /\ last.op = "log" /\ ~last.threw
  /\ last.failed = {"logFile", "globalLogFile"} /\ last.reported = last.failed
  /\ {"callback", "globalCallback", "logFile", "globalLogFile", "console"} \subseteq last.attempted

\* ------------------------------------------------------------------------
\* The specification of the timer: one logger at level INFO or ERROR, with
\* a delegate, which may throw, or the console, with a callback or not,
\* whose timestamp format is changed, whose timer is started and stopped,
\* and which is asked the time and logs, while time passes.

TimerFormats == {"ISO", "LOCAL_DATE_TIME", "TIME_MILLIS"}

InitTimer == InitWith({INFO, ERROR}, {FALSE}, {Undefined}, BOOLEAN, {})

NextTimer ==
  \/ Tick
  \/ \E v \in TimerFormats : SetLogTimestampFormat("L1", v)
  \/ \E cb \in BOOLEAN : SetCallback("L1", cb)
  \/ Now("L1")
  \/ \E faults \in FaultSets({"extLog"}) : StartTimer("L1", 1, faults)
  \/ \E faults \in FaultSets({"extLog"}) : StopTimer("L1", 1, faults)
  \/ \E level \in {INFO, ERROR} : Log("L1", level, 1, {})

SpecTimer == InitTimer /\ [][NextTimer]_vars

\* 'Timer:    ' and the elapsed time of one digit padded to seven characters
TimerStamp(elapsed) == "Timer:          " \o ToString(elapsed) \o " ms"
IsTimerStamp(stamp) == \E elapsed \in 0..MaxClock : stamp = TimerStamp(elapsed)

\* C17: a timestamp that now() returns or that a log call writes has the
\* form 'Timer: <elapsed> ms' exactly when a timer is running: from
\* startTimer, whose own line has it, until stopTimer has returned, whose
\* line still has it, whatever the timestamp format is; otherwise it is the
\* timestamp of the selected format; stopTimer with no running timer logs
\* nothing and leaves logStartTime at 0.
C17_TimerOverride ==
  [][/\ \A faults \in SUBSET {"extLog"} :
          StartTimer("L1", 1, faults) =>
            /\ logStartTime'["L1"] = clock
            /\ last'.stamp # "" => last'.stamp = TimerStamp(0)
     /\ \A faults \in SUBSET {"extLog"} :
          StopTimer("L1", 1, faults) =>
            IF logStartTime["L1"] # 0
            THEN /\ last'.stamp # "" => last'.stamp = TimerStamp(clock - logStartTime["L1"])
                 /\ ~last'.threw => logStartTime'["L1"] = 0
            ELSE /\ last'.attempted = {} /\ last'.stamp = ""
                 /\ UNCHANGED <<instVars, globVars, files>>
                 /\ logStartTime'["L1"] = 0
     /\ (Now("L1") \/ \E level \in LogLevel : Log("L1", level, 1, {})) =>
          /\ logStartTime' = logStartTime
          /\ last'.op = "now" => last'.stamp # ""
          /\ last'.stamp # "" =>
               /\ IsTimerStamp(last'.stamp) <=> logStartTime["L1"] # 0
               /\ logStartTime["L1"] # 0
                    => last'.stamp = TimerStamp(clock - logStartTime["L1"])
               /\ logStartTime["L1"] = 0
                    => /\ logTimestampFormat["L1"] = "ISO"
                            => last'.stamp = "toISOString(" \o ToString(clock) \o ")"
                       /\ logTimestampFormat["L1"] = "LOCAL_DATE_TIME"
                            => last'.stamp = "toLocaleString(" \o ToString(clock) \o ")"]_vars

\* the line of stopTimer, two ticks after the start, with the format
\* changed meanwhile: the timer has stopped and the line has the elapsed time
C17_Witness ==
  /\ last.op = "log" /\ last.level = INFO /\ "console" \in last.attempted
  /\ last.stamp = TimerStamp(2)
  /\ logTimestampFormat["L1"] = "ISO"
  /\ logStartTime["L1"] = 0

\* ------------------------------------------------------------------------
\* The specification of the process-wide levels: the process-wide callback
\* is set or cleared, the two process-wide levels are set to any level, and
\* they are read.

InitLevels == InitWith({INFO}, {FALSE}, {Undefined}, {FALSE}, {})

NextLevels ==
  \/ \E cb \in BOOLEAN, v \in LogLevel : SetGlobalCallback(cb, v)
  \/ \E v \in LogLevel : SetGlobalCallbackLevel(v)
  \/ \E v \in LogLevel : SetGlobalLogfileLevel(v)
  \/ GetGlobalCallbackLevel
  \/ GetGlobalLogfileLevel

SpecLevels == InitLevels /\ [][NextLevels]_vars

\* C18: for every level L, NONE included, setGlobalCallbackLevel(L) leaves
\* the process-wide callback as it is and getGlobalCallbackLevel() returns L
\* after it, and getGlobalLogfileLevel() returns L after
\* setGlobalLogfileLevel(L).  (Stated as the claim has it; the getters
\* return undefined for NONE.)
C18_RoundTrip ==
  [][\A L \in LogLevel :
       /\ SetGlobalCallbackLevel(L)
            => (AnsiLoggerCallback' = AnsiLoggerCallback /\ getGlobalCallbackLevel' = L)
       /\ SetGlobalLogfileLevel(L) => getGlobalLogfileLevel' = L]_vars

\* ------------------------------------------------------------------------
\* The specification of the two scopes: two loggers, both constructed
\* before anything is set, each with its own callback set or cleared, the
\* process-wide callback set or cleared at level INFO or ERROR, the level
\* of the first logger changed, and log calls on either logger.

InitScope == InitWith({INFO}, {FALSE}, {Undefined}, {FALSE}, {})

NextScope ==
  \/ \E l \in Loggers, cb \in BOOLEAN : SetCallback(l, cb)
  \/ \E cb \in BOOLEAN, v \in {INFO, ERROR} : SetGlobalCallback(cb, v)
  \/ \E v \in {INFO, ERROR} : SetLogLevel("L1", v)
  \/ \E l \in Loggers, level \in {DEBUG, WARN, FATAL} : Log(l, level, 1, {})

SpecScope == InitScope /\ [][NextScope]_vars

\* C19: setCallback on one logger changes the callback of that logger and
\* nothing else, of another logger or process-wide; a log call on a logger
\* invokes an instance callback iff this logger has one and the message
\* passes the level of this logger, whatever callbacks the other loggers
\* have, and invokes the process-wide callback iff one is set at the time
\* of the call and the message passes the process-wide callback level,
\* whichever logger is called.
C19_Scopes ==
  [][/\ \A l \in Loggers, cb \in BOOLEAN :
          SetCallback(l, cb) =>
            /\ callback'[l] = cb
            /\ \A k \in Loggers \ {l} : callback'[k] = callback[k]
            /\ UNCHANGED <<extLog, logLevel, logWithColors, logFilePath, logFileSize,
                           maxFileSize, globVars, files, timerVars>>
     /\ \A l \in Loggers, level \in LogLevel :
          Log(l, level, 1, {}) =>
            /\ "callback" \in last'.attempted
                 <=> (callback[l] /\ Passes(level, logLevel[l]))
            /\ "globalCallback" \in last'.attempted
                 <=> (AnsiLoggerCallback /\ Passes(level, AnsiLoggerCallbackLoglevel))
            /\ UNCHANGED <<callback, AnsiLoggerCallback, AnsiLoggerCallbackLoglevel>>]_vars

\* a log call on the second logger, which has no callback while the first
\* has one: only the process-wide callback is invoked
C19_Witness ==
  /\ last.op = "log" /\ last.logger = "L2" /\ last.level = WARN
  /\ callback["L1"] /\ ~callback["L2"]
  /\ AnsiLoggerCallback
  /\ "callback" \notin last.attempted
  /\ "globalCallback" \in last.attempted

\* ------------------------------------------------------------------------
\* stringify of plain payloads: containers without cycles and below the
\* size guard, built by assigning their properties one after another.
\* Object.entries gives the own properties of an object with the keys that
\* are array indexes first, in ascending order, then the other keys in the
\* order in which they were assigned; an array has its elements under the
\* indexes 0, 1, ...

MaxIndex == 2

isArrayIndex(key) == \E i \in 0..MaxIndex : key = ToString(i)

RECURSIVE ascending(_)
ascending(S) ==
  IF S = {} THEN <<>>
  ELSE LET least == CHOOSE x \in S : \A y \in S : x <= y
       IN <<least>> \o ascending(S \ {least})

\* Object.entries in the order of the assignments
ObjectEntriesAsInserted(inserted) == inserted

\* Object.entries(payload), payload being an object whose properties were
\* assigned in the order of inserted (no key twice)
ObjectEntries(inserted) ==
  LET indexes == ascending({i \in 0..MaxIndex :
                              \E k \in 1..Len(inserted) : inserted[k].key = ToString(i)})
      entryAt(i) == inserted[CHOOSE k \in 1..Len(inserted) : inserted[k].key = ToString(i)]
  IN [j \in 1..Len(indexes) |-> entryAt(indexes[j])]
     \o SelectSeq(inserted, LAMBDA e : ~isArrayIndex(e.key))

\* Object.entries(payload), payload being the array of the values of inserted
ArrayEntries(inserted) ==
  [i \in 1..Len(inserted) |-> Entry(ToString(i - 1), inserted[i].value)]

\* the heap of a payload given by the assignments that built its containers
HeapOfInserted(p) ==
  [o \in Objs |-> Container(o \in p.arrays,
                            IF o \in p.arrays THEN ArrayEntries(p.inserted[o])
                            ELSE ObjectEntries(p.inserted[o]))]

\* the properties assigned to the root: each key with a leaf of its own
\* kind, or the container o2
PlainEntries ==
  {Entry("a", Value("number", "123")), Entry("b", Value("string", "abc")),
   Entry("1", Value("boolean", "true")), Entry("0", Null),
   Entry("c", Undef), Entry("d", Value("function", "")),
   Entry("e", Value("bigint", "121211111111111211")), Entry("f", Ref("o2"))}

InjectiveSeqs(S, n) ==
  {q \in SeqsUpTo(S, n) : \A i, j \in 1..Len(q) : i # j => q[i] # q[j]}

\* o1 has up to n of PlainEntries, o2 holds nothing, o3, or a string and
\* then o3 under an index, o3 holds nothing or a boolean and then null
\* under an index; each of them is an object or an array
PlainPayloadsUpTo(n) ==
  {[root |-> Ref("o1"), arrays |-> arrays,
    inserted |-> [o \in Objs |-> IF o = "o1" THEN i1 ELSE IF o = "o2" THEN i2 ELSE i3]] :
     arrays \in SUBSET Objs,
     i1 \in InjectiveSeqs(PlainEntries, n),
     i2 \in {<<>>, <<Entry("a", Ref("o3"))>>,
             <<Entry("b", Value("string", "x")), Entry("2", Ref("o3"))>>},
     i3 \in {<<>>, <<Entry("b", Value("boolean", "false")), Entry("0", Null)>>}}

InitPlain ==
  /\ InitLoggers({INFO}, {FALSE}, {Undefined}, {FALSE}, {})
  /\ stringifyPayload \in PlainPayloadsUpTo(MaxEntries)
  /\ stringifyResult = NotRendered

\* stringify(payload)
StringifyPlain ==
  /\ ~stringifyResult.done
  /\ \E r \in {stringify(HeapOfInserted(stringifyPayload), stringifyPayload.root, {})} :
       stringifyResult' = [threw |-> r.threw, out |-> r.out, done |-> TRUE]
  /\ last' = NoCall
  /\ UNCHANGED <<instVars, globVars, files, timerVars, stringifyPayload, logName>>

NextPlain == StringifyPlain

SpecPlain == InitPlain /\ [][NextPlain]_vars

\* the entries of a container as the properties state them: in the order
\* of the assignments (indexesFirst = FALSE), or the keys that are array
\* indexes first, ascending, and the others in the order of the assignments
ListedBefore(inserted, i, j, indexesFirst) ==
  IF indexesFirst /\ (isArrayIndex(inserted[i].key) \/ isArrayIndex(inserted[j].key))
  THEN IF isArrayIndex(inserted[i].key) /\ isArrayIndex(inserted[j].key)
       THEN \E a, b \in 0..MaxIndex : /\ inserted[i].key = ToString(a)
                                      /\ inserted[j].key = ToString(b)
                                      /\ a < b
       ELSE isArrayIndex(inserted[i].key)
  ELSE i < j

Listed(inserted, indexesFirst) ==
  LET n == Len(inserted)
      order == CHOOSE f \in [1..n -> 1..n] :
                 /\ \A i, j \in 1..n : i # j => f[i] # f[j]
                 /\ \A i, j \in 1..n :
                      i < j => ListedBefore(inserted, f[i], f[j], indexesFirst)
  IN [i \in 1..n |-> inserted[order[i]]]

ListedHeap(p, indexesFirst) ==
  [o \in Objs |-> Container(o \in p.arrays,
                            IF o \in p.arrays
                            THEN [i \in 1..Len(p.inserted[o]) |->
                                    Entry("", p.inserted[o][i].value)]
                            ELSE Listed(p.inserted[o], indexesFirst))]

\* the payload is the object or array o1 built by the given assignments,
\* o2 and o3 being empty objects
PlainRoot(p, isArray, i1) ==
  /\ p.arrays = (IF isArray THEN {"o1"} ELSE {})
  /\ p.inserted["o1"] = i1 /\ p.inserted["o2"] = <<>> /\ p.inserted["o3"] = <<>>

\* C21 as stated: for a payload without cycles whose containers have fewer
\* than 100 entries, stringify lists the entries of each container once,
\* in the order in which they were inserted, as key: value or value, with
\* the delimiters and the leaves as stated.
C21_Original ==
  stringifyResult.done =>
    /\ ~stringifyResult.threw
    /\ stringifyResult.out
         = RootRendering(ListedHeap(stringifyPayload, FALSE), stringifyPayload.root,
                         FALSE, TRUE)

\* C21 amended: the same, the entries of an object being listed with the
\* keys that are array indexes first, in ascending order, and the other
\* keys after them in the order in which they were inserted.
C21_PlainRendering ==
  stringifyResult.done =>
    /\ ~stringifyResult.threw
    /\ stringifyResult.out
         = RootRendering(ListedHeap(stringifyPayload, TRUE), stringifyPayload.root,
                         FALSE, TRUE)
    /\ PlainRoot(stringifyPayload, FALSE, <<>>) => stringifyResult.out = "{  }"
    /\ PlainRoot(stringifyPayload, FALSE, <<Entry("b", Value("string", "abc"))>>)
         => stringifyResult.out = "{ b: 'abc' }"
    /\ PlainRoot(stringifyPayload, TRUE,
                 <<Entry("a", Value("number", "123")), Entry("b", Value("string", "abc"))>>)
         => stringifyResult.out = "[ 123, 'abc' ]"
    /\ PlainRoot(stringifyPayload, TRUE, <<Entry("0", Null), Entry("c", Undef)>>)
         => stringifyResult.out = "[ null, undefined ]"
    /\ PlainRoot(stringifyPayload, FALSE,
                 <<Entry("b", Value("string", "abc")), Entry("1", Value("boolean", "true"))>>)
         => stringifyResult.out = "{ 1: true, b: 'abc' }"

\* an object of depth three was rendered whose index key was assigned
\* after another key, inside a container that is itself listed
C21_Witness ==
  /\ stringifyResult.done /\ ~stringifyResult.threw
  /\ stringifyPayload.arrays = {"o2"}
  /\ stringifyPayload.inserted["o1"]
       = <<Entry("d", Value("function", "")), Entry("f", Ref("o2"))>>
  /\ stringifyPayload.inserted["o2"] = <<Entry("a", Ref("o3"))>>
  /\ stringifyPayload.inserted["o3"]
       = <<Entry("b", Value("boolean", "false")), Entry("0", Null)>>
  /\ stringifyResult.out = "{ d: (function), f: [ { 0: null, b: false } ] }"

\* ------------------------------------------------------------------------
\* The specification of the message: one logger at level INFO, with colors
\* or not, with a delegate or not, whose callback and file and the
\* process-wide callback and file are set or not, and log calls with
\* messages of up to MaxStars leading stars and with extra arguments.  A
\* file holds one line, of the length of the message written.

MaxStars == 5

Messages == {[i \in 1..k |-> "*"] \o <<"m">> : k \in 0..MaxStars} \cup {<<"*">>}

ParameterLists ==
  {<<>>, <<Value("string", "param1"), Value("string", "param2")>>,
   <<Value("number", "1"), Null, Ref("o1")>>,
   <<Value("function", "")>>, <<Value("symbol", "testSymbol")>>}

LogNames == {"NodeAnsiLogger", "TestLogger"}

InitMessage == InitWith({INFO}, {FALSE}, {Undefined, "false"}, BOOLEAN, {})

\* the caller uses one of the two files: it assigns a path of one while the
\* other has no path and nothing was written to it, and takes a path away
\* while nothing was written to the file
NextMessage ==
  \/ \E name \in LogNames : SetLogName("L1", name)
  \/ \E cb \in BOOLEAN : SetCallback("L1", cb)
  \/ \E cb \in BOOLEAN : SetGlobalCallback(cb, INFO)
  \/ \E fp \in {"a.log", Undefined} :
       /\ AnsiLoggerFilePath = Undefined /\ files["/cwd/b.log"].gapp = 0
       /\ fp = Undefined => logFileSize["L1"] \in {NoSize, 0}
       /\ SetLogFilePath("L1", fp, FALSE, FALSE)
  \/ \E fp \in {"b.log", Undefined} :
       /\ logFilePath["L1"] = Undefined /\ files["/cwd/a.log"].app = 0
       /\ fp = Undefined => AnsiLoggerFileLogSize \in {NoSize, 0}
       /\ SetGlobalLogfile(fp, INFO, TRUE, FALSE, FALSE)
  \/ \E message \in Messages, parameters \in ParameterLists :
       LogMessage("L1", WARN, message, parameters)

SpecMessage == InitMessage /\ [][NextMessage]_vars

\* what an extra argument looks like in the text of a callback and in the
\* line of a file
ShownJoined(parameter) ==
  CASE parameter.t \in {"null", "undefined"} -> ""
    [] parameter.t = "object" -> "[object Object]"
    [] parameter.t = "function" -> "function () {}"
    [] OTHER -> parameter.v

ShownInFile(parameter) ==
  CASE parameter.t = "object" -> "{  }"
    [] parameter.t \in {"null", "undefined"} -> parameter.t
    [] parameter.t = "symbol" -> "Symbol(" \o parameter.v \o ")"
    [] parameter.t = "function" -> "(function)"
    [] OTHER -> parameter.v

\* each of the arguments after a space
RECURSIVE SpacedJoined(_)
SpacedJoined(parameters) ==
  IF parameters = <<>> THEN ""
  ELSE " " \o ShownJoined(Head(parameters)) \o SpacedJoined(Tail(parameters))

\* the arguments with a space between them
RECURSIVE BetweenSpaces(_)
BetweenSpaces(parameters) ==
  IF parameters = <<>> THEN ""
  ELSE ShownInFile(Head(parameters))
       \o (IF Len(parameters) > 1 THEN " " ELSE "") \o BetweenSpaces(Tail(parameters))

\* C22: a callback that a log call invokes is given the level, the
\* timestamp, the name of the logger and the message followed by the extra
\* arguments, a space before each (the message alone when there are none);
\* the delegate is given the message and the extra arguments as they were
\* passed, the console the same extra arguments and the message (less its
\* leading stars in the color path), a file the line with the message and
\* the extra arguments.  (Every sink of the call is invoked, but a callback
\* when an extra argument is a symbol, which cannot be joined.)
C22_CallbackText ==
  last.op = "log" =>
    /\ \A sink \in last.attempted \ DOMAIN last.received :
         /\ sink \in {"callback", "globalCallback"}
         /\ \E i \in 1..Len(last.arg.parameters) : last.arg.parameters[i].t = "symbol"
    /\ \A sink \in DOMAIN last.received :
      LET got == last.received[sink] IN
      CASE sink \in {"callback", "globalCallback"} ->
             got = Given(last.level, last.stamp, logName[last.logger], "",
                         asString(last.arg.message) \o SpacedJoined(last.arg.parameters),
                         <<>>)
        [] sink = "extLog" ->
             /\ got.level = last.level
             /\ got.message = asString(last.arg.message)
             /\ got.parameters = last.arg.parameters
        [] sink = "console" ->
             /\ got.parameters = last.arg.parameters
             /\ \E stars \in 0..Len(last.arg.message) :
                  /\ \A i \in 1..stars : last.arg.message[i] = "*"
                  /\ got.message \in {asString(slice(last.arg.message, stars)),
                                      asString(slice(last.arg.message, stars)) \o rs \o rk}
        [] sink \in {"logFile", "globalLogFile"} ->
             got.message = "[" \o last.stamp \o "] [" \o logName[last.logger] \o "] ["
                           \o last.level \o "] " \o asString(last.arg.message) \o " "
                           \o BetweenSpaces(last.arg.parameters)

\* both callbacks, the file and the delegate were given a message with two
\* extra arguments in one call
C22_Witness ==
  /\ last.op = "log" /\ logName[last.logger] = "TestLogger"
  /\ {"callback", "globalCallback", "logFile", "extLog"} \subseteq DOMAIN last.received
  /\ last.received["callback"].name = "TestLogger"
  /\ last.arg.message = <<"*", "m">>
  /\ last.received["callback"].message = "*m param1 param2"
  /\ last.received["globalCallback"].message = "*m param1 param2"
  /\ last.received["extLog"].message = "*m"
  /\ Len(last.received["extLog"].parameters) = 2

\* ------------------------------------------------------------------------
\* The specification of the constructor: a logger whose level, callback and
\* file path are set and whose timer is started, and that is constructed
\* anew with any parameters.

AnsiLoggerParams ==
  [extLog : BOOLEAN, logName : {Undefined, "TestLogger"}, logDebug : BOOLEAN,
   logLevel : LogLevel \cup {Undefined}, logWithColors : {Undefined, "true", "false"},
   logTimestampFormat : {Undefined, "ISO"},
   logCustomTimestampFormat : {Undefined, "yyyyMMddHHmmss"}]

InitConstructor == InitWith({INFO}, {FALSE}, {Undefined}, {FALSE}, {})

NextConstructor ==
  \/ \E v \in {NONE, WARN} : SetLogLevel("L1", v)
  \/ SetCallback("L1", TRUE)
  \/ SetLogFilePath("L1", "a.log", FALSE, FALSE)
  \/ StartTimer("L1", 1, {})
  \/ SetLogName("L1", "Renamed")
  \/ \E params \in AnsiLoggerParams : Construct("L1", params)

SpecConstructor == InitConstructor /\ [][NextConstructor]_vars

\* C23: a logger constructed without logLevel has the level INFO, or DEBUG
\* when logDebug is true; a logLevel that is given wins over logDebug; the
\* other defaults are the name NodeAnsiLogger, colors, the timestamp format
\* LOCAL_DATE_TIME and the custom pattern yyyy-MM-dd HH:mm:ss; a new logger
\* has no callback and no file path and its timer does not run.
C23_Defaults ==
  last.op = "constructor" =>
    /\ last.arg.logLevel = Undefined =>
         logLevel[last.logger] = (IF last.arg.logDebug THEN DEBUG ELSE INFO)
    /\ last.arg.logLevel # Undefined => logLevel[last.logger] = last.arg.logLevel
    /\ last.arg.logName = Undefined => logName[last.logger] = "NodeAnsiLogger"
    /\ last.arg.logWithColors = Undefined => logWithColors[last.logger]
    /\ last.arg.logTimestampFormat = Undefined =>
         logTimestampFormat[last.logger] = "LOCAL_DATE_TIME"
    /\ last.arg.logCustomTimestampFormat = Undefined =>
         last.received.logCustomTimestampFormat = "yyyy-MM-dd HH:mm:ss"
    /\ ~callback[last.logger]
    /\ logFilePath[last.logger] = Undefined
    /\ logStartTime[last.logger] = 0

\* a logger constructed with logLevel NONE and logDebug true
C23_Witness ==
  /\ last.op = "constructor"
  /\ last.arg.logLevel = NONE /\ last.arg.logDebug
  /\ last.arg.logName = Undefined /\ last.arg.logWithColors = Undefined
  /\ logLevel[last.logger] = NONE
  /\ logName[last.logger] = "NodeAnsiLogger"

\* ------------------------------------------------------------------------
\* The specification of the process-wide file: two loggers at level INFO
\* with caps of their own, the process-wide file set again and again, with
\* unlink or without, or cleared, and log calls of both loggers, in which
\* the write or the sentinel may fail.

InitGlobalFile == InitWith({INFO}, {FALSE}, {Undefined}, {FALSE}, {})

NextGlobalFile ==
  \/ \E fp \in {"b.log", Undefined}, unlink \in BOOLEAN :
       SetGlobalLogfile(fp, INFO, unlink, FALSE, FALSE)
  \/ \E l \in Loggers, v \in MaxFileSizes : SetMaxFileSize(l, v)
  \/ \E l \in Loggers, level \in {DEBUG, WARN}, n \in LineSizes,
        faults \in FaultSets({"globalLogFile", "globalLogFileStop"}) :
       Log(l, level, n, faults)

SpecGlobalFile == InitGlobalFile /\ [][NextGlobalFile]_vars

\* C24: after the log call in which the process-wide file reached the cap
\* and got its sentinel line, the next log call, of whichever logger, writes
\* nothing to that file.
C24_GlobalCap ==
  [][(/\ last.op = "log" /\ "globalLogFile" \in last.attempted /\ last.failed = {}
      /\ AnsiLoggerFileLogSize >= maxFileSize[last.logger]
      /\ files[AnsiLoggerFilePath].gstop >= 1
      /\ last'.op = "log")
       => /\ "globalLogFile" \notin last'.attempted
          /\ files'[AnsiLoggerFilePath] = files[AnsiLoggerFilePath]]_vars

\* C25 as stated: the counter of the process-wide file is the length of the
\* application lines that the file at the current path holds.
C25_Original ==
  AnsiLoggerFilePath # Undefined =>
    AnsiLoggerFileLogSize = files[AnsiLoggerFilePath].gapp

\* C25 amended: setGlobalLogfile with a usable path sets the counter to 0,
\* and leaves the file as it is unless unlink is true; every log call adds to
\* the counter the length of the application line that it appends to the
\* file.  (So the counter is the length of the lines appended since the path
\* was set, and the file may hold more.)
C25_CounterSinceSet ==
  [][/\ (last'.op = "setGlobalLogfile" /\ usablePath(last'.arg)) =>
          /\ AnsiLoggerFilePath' = resolve(last'.arg)
          /\ AnsiLoggerFileLogSize' = 0
          /\ \/ files' = files
             \/ ~existsSync(files', resolve(last'.arg))
     /\ (last'.op = "log" /\ AnsiLoggerFilePath # Undefined) =>
          /\ AnsiLoggerFileLogSize' - AnsiLoggerFileLogSize
               = files'[AnsiLoggerFilePath].gapp - files[AnsiLoggerFilePath].gapp
          /\ AnsiLoggerFileLogSize' >= AnsiLoggerFileLogSize
          /\ AnsiLoggerFileLogSize' > AnsiLoggerFileLogSize
               => AnsiLoggerFileLogSize < maxFileSize[last'.logger]]_vars

\* a line was appended to a file that held lines from before its path was
\* set again without unlink, so that the file holds more than was counted
C25_Witness ==
  /\ last.op = "log" /\ "globalLogFile" \in last.attempted /\ last.failed = {}
  /\ AnsiLoggerFilePath # Undefined
  /\ AnsiLoggerFileLogSize > 0
  /\ files[AnsiLoggerFilePath].gapp > AnsiLoggerFileLogSize

\* ------------------------------------------------------------------------
\* The specification of the size of the instance file: one logger at level
\* INFO whose file path is assigned, usable or not, that logs lines of
\* different lengths, and whose logFileSize is read.

InitFileSize == InitWith({INFO}, {FALSE}, {Undefined}, {FALSE}, {"/cwd/a.log"})

NextFileSize ==
  \/ \E fp \in RelPaths \cup BadPaths, uf \in BOOLEAN : SetLogFilePath("L1", fp, FALSE, uf)
  \/ \E level \in {DEBUG, WARN}, n \in LineSizes, faults \in FaultSets({"logFile"}) :
       Log("L1", level, n, faults)
  \/ GetLogFileSize("L1")

SpecFileSize == InitFileSize /\ [][NextFileSize]_vars

\* C26: when the file path of the instance is set, the logFileSize getter
\* returns the counter, 0 before any line was written; it returns undefined
\* only when no path is set.
C26_SizeGetter ==
  last.op = "logFileSize" =>
    /\ logFilePath[last.logger] # Undefined => last.arg = logFileSize[last.logger]
    /\ logFilePath[last.logger] = Undefined => last.arg = NoSize

\* ------------------------------------------------------------------------
\* The specification of the order of the sinks: one logger at level INFO,
\* with a delegate or not, whose callback and file and the process-wide
\* callback and file are set or not, and log calls one after another, in
\* which any sink may fail.

InitOrder == InitWith({INFO}, {FALSE}, {Undefined}, BOOLEAN, {})

NextOrder ==
  \/ \E cb \in BOOLEAN : SetCallback("L1", cb)
  \/ \E cb \in BOOLEAN : SetGlobalCallback(cb, INFO)
  \/ \E fp \in {"a.log", Undefined} : SetLogFilePath("L1", fp, FALSE, FALSE)
  \/ \E fp \in {"b.log", Undefined} : SetGlobalLogfile(fp, INFO, TRUE, FALSE, FALSE)
  \/ \E level \in {DEBUG, WARN}, faults \in FaultSets(FaultPoints \ {"logFileStop", "globalLogFileStop"}) :
       LogInTurn("L1", level, 1, faults)

SpecOrder == InitOrder /\ [][NextOrder]_vars

\* the place of a sink in the order instance callback, process-wide
\* callback, instance file, process-wide file, delegate, console
PlaceOf(sink) ==
  CASE sink = "callback" -> 1
    [] sink = "globalCallback" -> 2
    [] sink = "logFile" -> 3
    [] sink = "globalLogFile" -> 4
    [] sink \in {"extLog", "console"} -> 5

\* C27: a log call invokes its sinks, each once, in the order instance
\* callback, process-wide callback, instance file, process-wide file,
\* delegate or console; of two log calls made one after the other, the first
\* has invoked all its sinks before the second invokes any.
C27_SinkOrder ==
  last.op = "log" =>
    /\ {last.order[i] : i \in 1..Len(last.order)} = last.attempted
    /\ \A i, j \in 1..Len(last.order) :
         i < j => PlaceOf(last.order[i]) < PlaceOf(last.order[j])
    /\ \A i, j \in 1..Len(last.events) :
         i < j => \/ last.events[i].call < last.events[j].call
                  \/ /\ last.events[i].call = last.events[j].call
                     /\ PlaceOf(last.events[i].sink) < PlaceOf(last.events[j].sink)
    /\ \A i \in 1..Len(last.order) :
         last.events[Len(last.events) - Len(last.order) + i].sink = last.order[i]

\* two log calls one after the other, each invoking the two callbacks, the
\* two files and the delegate, the file of the instance failing in the second
C27_Witness ==
  /\ last.op = "log" /\ last.failed = {"logFile"}
  /\ last.order = <<"callback", "globalCallback", "logFile", "globalLogFile", "extLog">>
  /\ Len(last.events) = 10
  /\ last.events[5] = [call |-> 1, sink |-> "extLog"]
  /\ last.events[6] = [call |-> 2, sink |-> "callback"]

\* ------------------------------------------------------------------------
\* The specification of the paths and the counters: two loggers at level
\* INFO, files left by an earlier run, the path of the first logger and the
\* process-wide path assigned (with a working directory that is gone or an
\* unlink that fails, or not), caps set, and log calls of both loggers in
\* which a write may fail.

InitCounters == InitWith({INFO}, {FALSE}, {Undefined}, {FALSE}, AbsPaths)

NextCounters ==
  \/ \E fp \in {"a.log", Undefined, EmptyString}, cwdGone \in BOOLEAN, unlinkFails \in BOOLEAN :
       SetLogFilePath("L1", fp, cwdGone, unlinkFails)
  \/ \E fp \in {"b.log", Undefined, EmptyString}, unlink \in BOOLEAN,
        cwdGone \in BOOLEAN, unlinkFails \in BOOLEAN :
       SetGlobalLogfile(fp, INFO, unlink, cwdGone, unlinkFails)
  \/ \E v \in {2, MaxFileSizeCeiling + 1} : SetMaxFileSize("L1", v)
  \/ \E l \in Loggers, level \in {DEBUG, WARN},
        faults \in FaultSets({"logFile", "logFileStop", "globalLogFile", "globalLogFileStop"}) :
       Log(l, level, 1, faults)

SpecCounters == InitCounters /\ [][NextCounters]_vars

\* the counter before and after a step of a log call that appended a line
\* counted as "app" or "gapp" to the file at path
GrewByLine(path, before, after, who) ==
  /\ last'.op = "log"
  /\ path # Undefined /\ before # NoSize /\ after > before
  /\ IF who = "app" THEN files'[path].app > files[path].app
     ELSE files'[path].gapp > files[path].gapp

\* C28: after every operation the path of an instance is set exactly when
\* its counter is defined, and so for the process-wide path and counter; a
\* step that is no assignment of the path changes a counter only by raising
\* it, in a log call that appended an application line to the file.
C28_PathAndCounter ==
  /\ [](/\ \A l \in Loggers : (logFilePath[l] # Undefined) <=> (logFileSize[l] # NoSize)
        /\ (AnsiLoggerFilePath # Undefined) <=> (AnsiLoggerFileLogSize # NoSize))
  /\ [][/\ \A l \in Loggers :
             (logFileSize'[l] # logFileSize[l]
                /\ ~(last'.op = "logFilePath" /\ last'.logger = l))
             => /\ last'.logger = l /\ logFilePath'[l] = logFilePath[l]
                /\ GrewByLine(logFilePath[l], logFileSize[l], logFileSize'[l], "app")
        /\ (AnsiLoggerFileLogSize' # AnsiLoggerFileLogSize
              /\ last'.op # "setGlobalLogfile")
             => /\ AnsiLoggerFilePath' = AnsiLoggerFilePath
                /\ GrewByLine(AnsiLoggerFilePath, AnsiLoggerFileLogSize,
                              AnsiLoggerFileLogSize', "gapp")]_vars

\* both paths are set and a log call appended a second line to each file,
\* the process-wide file holding lines from before its path was set
C28_Witness ==
  /\ last.op = "log" /\ last.attempted = {"logFile", "globalLogFile", "console"}
  /\ last.failed = {}
  /\ logFilePath["L1"] = "/cwd/a.log" /\ logFileSize["L1"] = 2
  /\ AnsiLoggerFilePath = "/cwd/b.log" /\ AnsiLoggerFileLogSize = 2
  /\ files["/cwd/a.log"].app = 2 /\ files["/cwd/b.log"].gapp > 2

\* ------------------------------------------------------------------------
\* The specification of the appends that fail: one logger at level INFO
\* whose file and cap and the process-wide file are set or not, and log
\* calls in which a write to a file throws, or with an extra argument that
\* logToFile cannot serialize.

InitAppend == InitWith({INFO}, {FALSE}, {Undefined}, {FALSE}, {})

NextAppend ==
  \/ \E fp \in {"a.log", Undefined} : SetLogFilePath("L1", fp, FALSE, FALSE)
  \/ \E fp \in {"b.log", Undefined} : SetGlobalLogfile(fp, INFO, FALSE, FALSE, FALSE)
  \/ \E v \in {2, MaxFileSizeCeiling + 1} : SetMaxFileSize("L1", v)
  \/ \E level \in {DEBUG, WARN},
        faults \in FaultSets({"logFile", "logFileStop", "globalLogFile", "globalLogFileStop"}) :
       Log("L1", level, 1, faults)
  \/ \E level \in {DEBUG, WARN}, parameter \in LogParameters :
       LogParameter("L1", level, 1, parameter)

SpecAppend == InitAppend /\ [][NextAppend]_vars

\* C29: a log call in which the append of the application line to a file
\* sink throws leaves the counter and the path of that sink as they were
\* and appends nothing to its file, the sentinel line neither; the log call
\* of the same logger right after it, at a level that the sink lets through,
\* invokes the sink again.
C29_FailedAppend ==
  [][/\ (last'.op = "log" /\ "logFile" \in last'.failed) =>
          /\ logFilePath' = logFilePath /\ logFileSize' = logFileSize
          /\ logFilePath[last'.logger] # Undefined
          /\ files'[logFilePath[last'.logger]].app = files[logFilePath[last'.logger]].app
          /\ files'[logFilePath[last'.logger]].stop = files[logFilePath[last'.logger]].stop
     /\ (last'.op = "log" /\ "globalLogFile" \in last'.failed) =>
          /\ AnsiLoggerFilePath' = AnsiLoggerFilePath
          /\ AnsiLoggerFileLogSize' = AnsiLoggerFileLogSize
          /\ AnsiLoggerFilePath # Undefined
          /\ files'[AnsiLoggerFilePath].gapp = files[AnsiLoggerFilePath].gapp
          /\ files'[AnsiLoggerFilePath].gstop = files[AnsiLoggerFilePath].gstop
     /\ (last.op = "log" /\ last'.op = "log" /\ last'.logger = last.logger) =>
          /\ ("logFile" \in last.failed /\ last'.gates.inst)
               => "logFile" \in last'.attempted
          /\ ("globalLogFile" \in last.failed /\ last'.gates.gfile)
               => "globalLogFile" \in last'.attempted]_vars

\* a log call whose appends to the two files, each holding one line, both
\* threw: the counters and the files are as the line before left them
C29_Witness ==
  /\ last.op = "log" /\ last.failed = {"logFile", "globalLogFile"}
  /\ logFileSize["L1"] = 1 /\ AnsiLoggerFileLogSize = 1
  /\ files["/cwd/a.log"].app = 1 /\ files["/cwd/a.log"].stop = 0
  /\ files["/cwd/b.log"].gapp = 1 /\ files["/cwd/b.log"].gstop = 0

\* ------------------------------------------------------------------------
\* The star prefix, in the specification of the messages

\* the number of stars that a message begins with
LeadingStars(message) ==
  CHOOSE k \in 0..Len(message) :
    /\ \A i \in 1..k : message[i] = "*"
    /\ k < Len(message) => message[k + 1] # "*"

\* the color of the name of tier 1 to 4, and the color of no tier
TierColor(tier) ==
  CASE tier = 0 -> "_logNameColor"
    [] tier = 1 -> "s1ln"
    [] tier = 2 -> "s2ln"
    [] tier = 3 -> "s3ln"
    [] tier = 4 -> "s4ln"

\* C30: of a message that begins with k stars, console.log in the color
\* path is given the message less its first min(k, 4) stars and the color
\* of the name of tier min(k, 4) (the color of the logger when k = 0); the
\* callbacks, the files, the delegate and console.log in the path without
\* colors are given the message with all its stars.
C30_StarPrefix ==
  last.op = "log" =>
    LET message == last.arg.message
        tier == IF LeadingStars(message) < 4 THEN LeadingStars(message) ELSE 4
    IN \A sink \in DOMAIN last.received :
         LET got == last.received[sink] IN
         CASE sink = "console" /\ logWithColors[last.logger] ->
                /\ got.logNameColor = TierColor(tier)
                /\ got.message = asString(SubSeq(message, tier + 1, Len(message))) \o rs \o rk
           [] sink = "console" /\ ~logWithColors[last.logger] ->
                /\ got.logNameColor = ""
                /\ got.message = asString(message)
           [] sink = "extLog" -> got.message = asString(message)
           [] sink \in {"callback", "globalCallback"} ->
                got.message = asString(message) \o SpacedJoined(last.arg.parameters)
           [] sink \in {"logFile", "globalLogFile"} ->
                got.message = "[" \o last.stamp \o "] [" \o logName[last.logger] \o "] ["
                              \o last.level \o "] " \o asString(message) \o " "
                              \o BetweenSpaces(last.arg.parameters)

\* a message of five stars and a letter went to a callback with its stars
\* and to the console in colors with one star left and the color of tier 4
C30_Witness ==
  /\ last.op = "log" /\ {"callback", "console"} \subseteq last.attempted
  /\ logWithColors[last.logger]
  /\ last.arg.message = <<"*", "*", "*", "*", "*", "m">>
  /\ last.arg.parameters = <<>>
  /\ last.received["callback"].message = "*****m"
  /\ last.received["console"].message = "*m" \o rs \o rk
  /\ last.received["console"].logNameColor = "s4ln"

====
